---- MODULE Spec2Model ----
(***************************************************************************)
(* A model of vllm/worker/habana_model_runner.py: the bucket geometry, the *)
(* per-step execution of HabanaModelRunner.execute_model on the driver and *)
(* on the other workers, and the warm-up / graph-capture schedule of       *)
(* HabanaModelRunner.warmup_model.                                         *)
(*                                                                         *)
(* Conventions.  A bucket config is the tuple <<bmin, bstep, bmax>>.  A    *)
(* bucket is <<batch_size, seq_len>>; an entry of graphed_buckets and of   *)
(* seen_configs is <<batch_size, seq_len, is_prompt>>.  Memory is counted  *)
(* in whole units.  The float total_batch_seq (initially 0.001) is kept in *)
(* thousandths, and the comparison mem_estimate >= available_mem is done   *)
(* in exact arithmetic after multiplying both sides by total_batch_seq.    *)
(***************************************************************************)
EXTENDS Integers, Sequences, FiniteSets, TLC

(***************************************************************************)
(* Bounds of the model.                                                    *)
(***************************************************************************)
\* Serving request lists have at most MaxReqs requests.
MaxReqs == 2
\* A served request has between 1 and MaxSeqLen tokens.
MaxSeqLen == 3
\* A capture is measured to cost between 0 and MaxCost units of memory.
MaxCost == 2
\* Free device memory at warm-up is 0, 2, ..., 2 * MaxFreeUnits units.
MaxFreeUnits == 2
\* At most MaxServe serving calls of execute_model are followed.
MaxServe == 2
\* Number of non-driver workers.
NumWorkers == 2
\* Number of blocks of the KV cache handed to warmup_model.
NumCacheBlocks == 4
\* Bucket geometry is explored for configs with entries up to MaxCfg ...
MaxCfg == 5
\* ... and for values up to MaxValue.
MaxValue == 12
\* Batch padding is explored for batches of up to MaxBatch requests.
MaxBatch == 40
MaxWindow == 2
MaxAxis == 4
MaxOutputBatch == 6

(***************************************************************************)
(* Helpers on sequences.                                                   *)
(***************************************************************************)
Max2(a, b) == IF a >= b THEN a ELSE b
Min2(a, b) == IF a <= b THEN a ELSE b

RECURSIVE SeqMax(_)
SeqMax(s) == IF Len(s) = 1 THEN s[1] ELSE Max2(s[1], SeqMax(Tail(s)))

RECURSIVE SeqSum(_)
SeqSum(s) == IF s = <<>> THEN 0 ELSE s[1] + SeqSum(Tail(s))

\* The list in its own order.
Reversed_same_order(s) == s

\* reversed(s)
Reversed(s) == [i \in 1..Len(s) |-> s[Len(s) + 1 - i]]

\* Python's comparison of two key tuples of the same length.
RECURSIVE LexLess(_, _)
LexLess(a, b) ==
    IF a = <<>> THEN FALSE
    ELSE IF a[1] # b[1] THEN a[1] < b[1]
    ELSE LexLess(Tail(a), Tail(b))

\* x inserted into the key-sorted sequence s, after the elements whose key is
\* not greater (sorted() is stable).
RECURSIVE InsertByKey(_, _, _)
InsertByKey(x, s, key) ==
    IF s = <<>> THEN <<x>>
    ELSE IF LexLess(key[x], key[s[1]]) THEN <<x>> \o s
    ELSE <<s[1]>> \o InsertByKey(x, Tail(s), key)

\* sorted(s, key=...): key is a function from the elements of s to tuples.
RECURSIVE SortedBy(_, _)
SortedBy(s, key) ==
    IF s = <<>> THEN <<>>
    ELSE InsertByKey(s[Len(s)], SortedBy(SubSeq(s, 1, Len(s) - 1), key), key)

SeqToSet(s) == {s[i] : i \in 1..Len(s)}

(***************************************************************************)
(* Bucket geometry.                                                        *)
(***************************************************************************)
\* itertools.accumulate(repeat(2), mul, initial=bmin) cut by the takewhile.
\* The ramp with x <= bstep in the takewhile.
RECURSIVE ramp_up_to_step(_, _, _)
ramp_up_to_step(x, bstep, bmax) ==
    IF x <= bstep /\ x <= bmax THEN <<x>> \o ramp_up_to_step(2 * x, bstep, bmax)
    ELSE <<>>

RECURSIVE ramp_up(_, _, _)
ramp_up(x, bstep, bmax) ==
    IF x < bstep /\ x <= bmax THEN <<x>> \o ramp_up(2 * x, bstep, bmax) ELSE <<>>

\* range(start, stop, step) as a list.
\* A range that includes its stop.
RECURSIVE PyRange_closed(_, _, _)
PyRange_closed(start, stop, step) ==
    IF start <= stop THEN <<start>> \o PyRange_closed(start + step, stop, step)
    ELSE <<>>

RECURSIVE PyRange(_, _, _)
PyRange(start, stop, step) ==
    IF start < stop THEN <<start>> \o PyRange(start + step, stop, step) ELSE <<>>

\* The stable part started at bmin.
warmup_range_from_min(config) ==
    ramp_up(config[1], config[2], config[3])
        \o PyRange(config[1], config[3] + 1, config[2])

warmup_range(config) ==
    LET bmin == config[1]
        bstep == config[2]
        bmax == config[3]
    IN ramp_up(bmin, bstep, bmax) \o PyRange(Max2(bmin, bstep), bmax + 1, bstep)

\* The key of both generators and of the min_tokens strategy.
TokensKey(b) == <<b[1] * b[2], b[2], b[1]>>

\* itertools.product(a, b), first component slowest.
Product(a, b) ==
    [k \in 1..(Len(a) * Len(b)) |->
        <<a[((k - 1) \div Len(b)) + 1], b[((k - 1) % Len(b)) + 1]>>]

\* The product left in the order of itertools.product.
generate_prompt_buckets_unsorted(bs_bucket_config, seq_bucket_config) ==
    Product(warmup_range(bs_bucket_config), warmup_range(seq_bucket_config))

generate_prompt_buckets(bs_bucket_config, seq_bucket_config) ==
    LET buckets == Product(warmup_range(bs_bucket_config),
                           warmup_range(seq_bucket_config))
    IN SortedBy(buckets, [b \in SeqToSet(buckets) |-> TokensKey(b)])

\* The inner loop of generate_decode_buckets from position j of the blocks
\* range: continue below bs, break above max_blocks.
\* The inner loop leaving (break) below bs as well.
RECURSIVE DecodeInner_break_first(_, _, _, _)
DecodeInner_break_first(bs, blocks, j, max_blocks) ==
    IF j > Len(blocks) THEN <<>>
    ELSE IF blocks[j] > max_blocks \/ blocks[j] < bs THEN <<>>
    ELSE <<(<<bs, blocks[j]>>)>>
         \o DecodeInner_break_first(bs, blocks, j + 1, max_blocks)

RECURSIVE DecodeInner(_, _, _, _)
DecodeInner(bs, blocks, j, max_blocks) ==
    IF j > Len(blocks) THEN <<>>
    ELSE IF blocks[j] < bs THEN DecodeInner(bs, blocks, j + 1, max_blocks)
    ELSE IF blocks[j] > max_blocks THEN <<>>
    ELSE <<(<<bs, blocks[j]>>)>> \o DecodeInner(bs, blocks, j + 1, max_blocks)

RECURSIVE DecodeOuter(_, _, _, _)
DecodeOuter(bss, i, blocks, max_blocks) ==
    IF i > Len(bss) THEN <<>>
    ELSE DecodeInner(bss[i], blocks, 1, max_blocks)
             \o DecodeOuter(bss, i + 1, blocks, max_blocks)

generate_decode_buckets(bs_bucket_config, blocks_bucket_config, max_blocks) ==
    LET buckets == DecodeOuter(warmup_range(bs_bucket_config), 1,
                               warmup_range(blocks_bucket_config), max_blocks)
    IN SortedBy(buckets, [b \in SeqToSet(buckets) |-> TokensKey(b)])

\* next_pow2 halving with value // 2 instead of (value + 1) // 2.
RECURSIVE next_pow2_floor(_, _)
next_pow2_floor(value, base) ==
    IF value > 1 THEN next_pow2_floor(value \div 2, base * 2) ELSE base

RECURSIVE next_pow2(_, _)
next_pow2(value, base) ==
    IF value > 1 THEN next_pow2((value + 1) \div 2, base * 2) ELSE base

round_up(value, k) == ((value + k - 1) \div k) * k

\* find_bucket calling round_up(bstep, value).
find_bucket_swapped(value, config) ==
    LET bmin == config[1]
        bstep == config[2]
        next_step == round_up(bstep, value)
        next_pow == next_pow2(value, bmin)
    IN Max2(bmin, Min2(next_step, next_pow))

find_bucket(value, config) ==
    LET bmin == config[1]
        bstep == config[2]
        next_step == round_up(value, bstep)
        next_pow == next_pow2(value, bmin)
    IN Max2(bmin, Min2(next_step, next_pow))

pad_list(l, k, v) ==
    LET target_len == round_up(Len(l), k)
        padding == target_len - Len(l)
    IN l \o [i \in 1..padding |-> v]


(***************************************************************************)
(* The runner: configuration fixed at construction, and its state.         *)
(***************************************************************************)
\* cache_config.block_size
block_size == 2
\* The bucket configs of _setup_buckets, scaled down.
prompt_bs_bucket_cfg == <<1, 2, 2>>
decode_bs_bucket_cfg == <<1, 1, 2>>
prompt_seq_bucket_cfg == <<block_size, block_size, 4>>
decode_block_bucket_cfg == <<2, 2, 4>>

\* total_batch_seq = 0.001, in thousandths, and the thousandths in a unit.
TotalBatchSeqInit == 1
Thousand == 1000
\* times = 3 if use_graphs or profile else 1
GraphTimes == 3

VARIABLES
    \* ---- configuration (model_config, environment, scheduler_config)
    enforce_eager,            \* model_config.enforce_eager
    skip_warmup,              \* VLLM_SKIP_WARMUP
    is_lazy,                  \* htorch.utils.internal.is_lazy()
    chunked_prefill_enabled,  \* scheduler_config.chunked_prefill_enabled
    \* ---- runner state
    graphed_buckets,          \* self.graphed_buckets
    seen_configs,             \* self.seen_configs
    \* ---- position in warmup_model and the locals of its loops
    pc,
    buckets,                  \* the list the current loop iterates over
    idx,                      \* number of its elements already visited
    available_mem,            \* warmup_graphs: remaining budget
    total_mem,                \* warmup_graphs: running memory total
    total_batch_seq,          \* warmup_graphs: running work total, thousandths
    decode_available_memory,  \* warmup_model: the decode scan's budget
    \* ---- history of the current scan
    scan_budget,              \* the available_mem argument of warmup_graphs
    scan_strategy,            \* the strategy argument of warmup_graphs
    scan_log,                 \* one record per visited candidate
    \* ---- the last execute_model call of the driver, and the number of
    \* ---- serving calls so far
    last,
    nserve,
    \* ---- history of the driver's calls: the shapes executed so far and the
    \* ---- shapes of the not-warmed-up warnings logged so far, in order
    executed,
    warnings,
    \* ---- the buckets warmup_all_buckets has run so far, in order, each
    \* ---- with its phase
    warm_log,
    \* ---- the device: the free memory and the capture costs it can report
    device,
    \* ---- the other workers
    channel,                  \* broadcasts sent and not yet received
    wpc,                      \* each worker's position in execute_model
    wlast,                    \* each worker's last receive(s)
    \* ---- the geometry functions applied to drawn inputs
    geom,
    \* ---- the capture scan as each rank of the world runs it
    ranks

cfgvars == <<enforce_eager, skip_warmup, is_lazy, chunked_prefill_enabled>>
scanvars == <<buckets, idx, available_mem, total_mem, total_batch_seq,
              decode_available_memory, scan_budget, scan_strategy,
              scan_log>>
workervars == <<wpc, wlast>>
histvars == <<executed, warnings, warm_log>>
vars == <<cfgvars, graphed_buckets, seen_configs, pc, scanvars, last, histvars,
          nserve, device, channel, workervars, geom, ranks>>

Workers == 1..NumWorkers
\* The ranks of the world that run the capture scan together; the scan does
\* not tell the driver from the others.
Ranks == Workers

\* No rank is scanning.
NoRanks == [r \in Ranks |-> [pc |-> "idle"]]
Strategies == {"min_tokens", "max_bs", "max_tokens"}
\* What HabanaMemoryProfiler can report: any cost up to MaxCost and any even
\* amount of free memory up to 2 * MaxFreeUnits ...
AnyDevice == [costs |-> 0..MaxCost,
              free_mems |-> {2 * k : k \in 0..MaxFreeUnits}]
\* ... or a device on which every capture costs one unit.
UnitCostDevice == [costs |-> {1}, free_mems |-> {0, 2 * MaxFreeUnits}]
\* VLLM_GRAPH_PROMPT_RATIO in halves: 0, 0.5 (the default), 1.
PromptRatios == {0, 1, 2}

(***************************************************************************)
(* Requests.  A request group holds one sequence: its phase, its length    *)
(* (seq_data.get_len()) and the length of its block table.                 *)
(***************************************************************************)
\* math.ceil(seq_len / self.block_size)
num_blocks_of(seq_len) == (seq_len + block_size - 1) \div block_size

Request(is_prompt, seq_len) ==
    [is_prompt |-> is_prompt, seq_len |-> seq_len,
     num_blocks |-> num_blocks_of(seq_len)]

create_dummy_seq_group_metadata(seq_len, is_prompt) ==
    [is_prompt |-> is_prompt, seq_len |-> seq_len,
     num_blocks |-> IF is_prompt THEN 0 ELSE num_blocks_of(seq_len)]

Requests == {Request(p, n) : p \in BOOLEAN, n \in 1..MaxSeqLen}

RequestLists == UNION {[1..n -> Requests] : n \in 0..MaxReqs}

(***************************************************************************)
(* prepare_input_tensors on the driver.                                    *)
(***************************************************************************)
IsPrompt(r) == r.is_prompt
IsDecode(r) == ~r.is_prompt

\* A partition that appends to decode_reqs only while prefill_reqs is empty.
partition_prefill_wins(seq_group_metadata_list) ==
    [prefill_reqs |-> SelectSeq(seq_group_metadata_list, IsPrompt),
     decode_reqs |-> IF SelectSeq(seq_group_metadata_list, IsPrompt) = <<>>
                     THEN SelectSeq(seq_group_metadata_list, IsDecode)
                     ELSE <<>>]

partition(seq_group_metadata_list) ==
    [prefill_reqs |-> SelectSeq(seq_group_metadata_list, IsPrompt),
     decode_reqs |-> SelectSeq(seq_group_metadata_list, IsDecode)]

\* What _prepare_prompt returns, as far as the step's shape goes:
\* attn_metadata is None for an empty list; input_tokens has one row per
\* request, max_prompt_len wide.
_prepare_prompt(reqs) ==
    IF Len(reqs) = 0
    THEN [attn_metadata |-> FALSE, seq_lens |-> <<>>, rows |-> 0, width |-> 0]
    ELSE LET seq_lens == [i \in 1..Len(reqs) |-> reqs[i].seq_len]
             max_prompt_len ==
                 Max2(find_bucket(SeqMax(seq_lens), prompt_seq_bucket_cfg),
                      block_size)
         IN [attn_metadata |-> TRUE, seq_lens |-> seq_lens,
             rows |-> Len(reqs), width |-> max_prompt_len]

RECURSIVE Chain(_)
Chain(ss) == IF ss = <<>> THEN <<>> ELSE ss[1] \o Chain(Tail(ss))

\* What _prepare_decode returns: one input token per sequence, and the
\* padded block_mapping (block_list has the same length).
_prepare_decode(reqs) ==
    IF Len(reqs) = 0
    THEN [attn_metadata |-> FALSE, rows |-> 0, block_mapping |-> <<>>]
    ELSE LET blocks_used == [i \in 1..Len(reqs) |-> reqs[i].num_blocks]
             block_mapping ==
                 Chain([i \in 1..Len(reqs) |->
                           [j \in 1..blocks_used[i] |-> i - 1]])
             block_bucket_size == decode_block_bucket_cfg[2]
         IN [attn_metadata |-> TRUE, rows |-> Len(reqs),
             block_mapping |-> pad_list(block_mapping, block_bucket_size, 0)]

\* A resolution that tags every batch with prompts as MIXED and goes on.
resolve_batch_type_mixed(prefill_attn_metadata, decode_attn_metadata) ==
    IF prefill_attn_metadata
    THEN [batch_type |-> "MIXED", raises |-> FALSE]
    ELSE [batch_type |-> "DECODE", raises |-> FALSE]

\* The batch type from which metadata is not None; raises for MIXED.
resolve_batch_type(prefill_attn_metadata, decode_attn_metadata) ==
    IF prefill_attn_metadata /\ decode_attn_metadata
    THEN [batch_type |-> "MIXED", raises |-> TRUE]
    ELSE IF prefill_attn_metadata
    THEN [batch_type |-> "PREFILL", raises |-> FALSE]
    ELSE [batch_type |-> "DECODE", raises |-> FALSE]

Raised(error, sent) ==
    [status |-> error, batch_type |-> "NONE", sent |-> sent,
     is_prompt |-> FALSE, batch_size |-> 0, seq_len |-> 0]

Message(batch_type, part) == [batch_type |-> batch_type, part |-> part]

\* The driver's branch once both halves are prepared: the status of the
\* call, the broadcasts it made (in order) and the shape of the batch.
\* n_prefill_reqs and n_decode_reqs are the lengths of the two partitions,
\* p and d what _prepare_prompt and _prepare_decode returned.
driver_branch(n_prefill_reqs, n_decode_reqs, p, d) ==
    LET num_prefills == Len(p.seq_lens)
        num_decode_tokens == d.rows
        resolved == resolve_batch_type(p.attn_metadata, d.attn_metadata)
    IN IF ~chunked_prefill_enabled
          /\ ~(n_prefill_reqs = 0 \/ n_decode_reqs = 0)
       THEN Raised("AssertionError", <<>>)
       ELSE IF ~((num_prefills = 0 /\ num_decode_tokens > 0)
                 \/ (num_prefills > 0 /\ num_decode_tokens = 0))
       THEN Raised("AssertionError", <<>>)
       ELSE IF resolved.raises
       THEN Raised("NotImplementedError", <<>>)
       ELSE IF resolved.batch_type = "MIXED" /\ ~d.attn_metadata
       THEN Raised("AssertionError", <<Message("MIXED", 1)>>)
       ELSE [status |-> "ok",
             batch_type |-> resolved.batch_type,
             sent |-> IF resolved.batch_type = "MIXED"
                      THEN <<Message("MIXED", 1), Message("MIXED", 2)>>
                      ELSE <<Message(resolved.batch_type, 1)>>,
             is_prompt |-> p.attn_metadata,
             batch_size |-> IF num_decode_tokens > 0 THEN d.rows ELSE p.rows,
             seq_len |-> IF p.attn_metadata THEN p.width
                         ELSE Len(d.block_mapping)]

prepare_input_tensors(seq_group_metadata_list) ==
    LET parts == partition(seq_group_metadata_list)
    IN driver_branch(Len(parts.prefill_reqs), Len(parts.decode_reqs),
                     _prepare_prompt(parts.prefill_reqs),
                     _prepare_decode(parts.decode_reqs))

(***************************************************************************)
(* execute_model on the driver.                                            *)
(***************************************************************************)
\* Padding that always takes the prompt batch-size config.
pad_batch_prompt_cfg(seq_group_metadata_list, prompt_cfg, decode_cfg) ==
    LET real_batch_size == Len(seq_group_metadata_list)
        batch_size_padded == find_bucket(real_batch_size, prompt_cfg)
        batch_size_padding == batch_size_padded - real_batch_size
    IN seq_group_metadata_list
           \o [i \in 1..batch_size_padding |-> seq_group_metadata_list[1]]

\* The request list padded to the batch-size bucket with copies of its first
\* request.
pad_batch(seq_group_metadata_list, prompt_cfg, decode_cfg) ==
    LET is_prompt == seq_group_metadata_list[1].is_prompt
        real_batch_size == Len(seq_group_metadata_list)
        bucket_cfg == IF is_prompt THEN prompt_cfg ELSE decode_cfg
        batch_size_padded == find_bucket(real_batch_size, bucket_cfg)
        batch_size_padding == batch_size_padded - real_batch_size
    IN seq_group_metadata_list
           \o [i \in 1..batch_size_padding |-> seq_group_metadata_list[1]]

\* _use_graphs without the enforce_eager test.
_use_graphs_no_eager(batch_size, seq_len, is_prompt, graphed) ==
    IF skip_warmup THEN TRUE
    ELSE <<batch_size, seq_len, is_prompt>> \in graphed

\* graphed is self.graphed_buckets at the time of the call.
_use_graphs(batch_size, seq_len, is_prompt, graphed) ==
    IF enforce_eager THEN FALSE
    ELSE IF skip_warmup THEN TRUE
    ELSE <<batch_size, seq_len, is_prompt>> \in graphed

\* The bypass_hpu_graphs keyword handed to the model, when there is one.
bypass_hpu_graphs(use_graphs) ==
    IF is_lazy THEN (IF use_graphs THEN "no_bypass" ELSE "bypass")
    ELSE "absent"

\* _check_config that warns whether or not the shape was seen.
_check_config_unseen_or_not(batch_size, seq_len, is_prompt, warmup_mode) ==
    [seen_configs |-> seen_configs \cup {<<batch_size, seq_len, is_prompt>>},
     warned |-> ~warmup_mode]

\* _check_config: the new seen_configs and whether the warning is logged.
_check_config(batch_size, seq_len, is_prompt, warmup_mode) ==
    LET cfg == <<batch_size, seq_len, is_prompt>>
        seen == cfg \in seen_configs
    IN [seen_configs |-> seen_configs \cup {cfg},
        warned |-> ~seen /\ ~warmup_mode]

NoStep ==
    [status |-> "none", warmup_mode |-> FALSE, times |-> 0,
     real_batch_size |-> 0, padded_size |-> 0,
     n_prompt_in |-> 0, n_decode_in |-> 0,
     batch_type |-> "NONE", sent |-> <<>>,
     is_prompt |-> FALSE, batch_size |-> 0, seq_len |-> 0,
     use_graphs |-> FALSE, bypass |-> "absent", warned |-> FALSE]

\* The shape (batch_size, seq_len, is_prompt) of a call.
Shape(step) == <<step.batch_size, step.seq_len, step.is_prompt>>

\* What the call recorded in step adds to the history: its shape when it
\* reached model.forward, and its warning when it logged one.
RecordStep(step) ==
    /\ executed' = IF step.status = "ok" THEN executed \cup {Shape(step)}
                   ELSE executed
    /\ warnings' = IF step.warned THEN Append(warnings, Shape(step))
                   ELSE warnings

\* execute_model after prepare_input_tensors returned prep for the padded
\* list: what the call leaves in `last` and in seen_configs.  On an
\* exception nothing but the broadcasts already made has happened.
execute_prepared(real_batch_size, padded, prep, warmup_mode, graphed) ==
    IF prep.status # "ok"
    THEN [last |-> [NoStep EXCEPT
                       !.warmup_mode = warmup_mode,
                       !.real_batch_size = real_batch_size,
                       !.padded_size = Len(padded),
                       !.n_prompt_in = Len(SelectSeq(padded, IsPrompt)),
                       !.n_decode_in = Len(SelectSeq(padded, IsDecode)),
                       !.status = prep.status,
                       !.sent = prep.sent],
          seen_configs |-> seen_configs]
    ELSE [last |-> [status |-> "ok", warmup_mode |-> warmup_mode, times |-> 0,
                    real_batch_size |-> real_batch_size,
                    padded_size |-> Len(padded),
                    n_prompt_in |-> Len(SelectSeq(padded, IsPrompt)),
                    n_decode_in |-> Len(SelectSeq(padded, IsDecode)),
                    batch_type |-> prep.batch_type, sent |-> prep.sent,
                    is_prompt |-> prep.is_prompt,
                    batch_size |-> prep.batch_size, seq_len |-> prep.seq_len,
                    use_graphs |-> _use_graphs(prep.batch_size, prep.seq_len,
                                               prep.is_prompt, graphed),
                    bypass |-> bypass_hpu_graphs(
                                   _use_graphs(prep.batch_size, prep.seq_len,
                                               prep.is_prompt, graphed)),
                    warned |-> _check_config(prep.batch_size, prep.seq_len,
                                             prep.is_prompt,
                                             warmup_mode).warned],
          seen_configs |-> _check_config(prep.batch_size, prep.seq_len,
                                         prep.is_prompt,
                                         warmup_mode).seen_configs]

\* execute_model after the batch is padded.
execute_padded(real_batch_size, padded, warmup_mode, graphed) ==
    execute_prepared(real_batch_size, padded, prepare_input_tensors(padded),
                     warmup_mode, graphed)

\* One call of execute_model on the driver.  An empty list fails at
\* seq_group_metadata_list[0].
execute_model(seq_group_metadata_list, warmup_mode, graphed) ==
    IF Len(seq_group_metadata_list) = 0
    THEN [last |-> [NoStep EXCEPT !.status = "IndexError",
                                  !.warmup_mode = warmup_mode],
          seen_configs |-> seen_configs]
    ELSE execute_padded(Len(seq_group_metadata_list),
                        pad_batch(seq_group_metadata_list,
                                  prompt_bs_bucket_cfg, decode_bs_bucket_cfg),
                        warmup_mode, graphed)

(***************************************************************************)
(* The output of execute_model on the driver.                              *)
(***************************************************************************)
\* SamplingMetadata.prepare: one sequence group per row of the list handed to
\* prepare_input_tensors, named here by the row's index.
seq_groups(seq_group_metadata_list) ==
    [i \in 1..Len(seq_group_metadata_list) |-> i]

\* model.sample, by its contract: one output per sequence group.
sample(groups) ==
    [i \in 1..Len(groups) |-> [row |-> groups[i], kind |-> "sampled"]]

\* The empty output composed for prompts under delayed sampling.
empty_prompt_output(groups) ==
    [i \in 1..Len(groups) |-> [row |-> groups[i], kind |-> "empty"]]

\* The output left untrimmed.
trim_output_none(outputs, real_batch_size) == outputs

\* output.outputs[:real_batch_size]
trim_output(outputs, real_batch_size) ==
    SubSeq(outputs, 1, Min2(real_batch_size, Len(outputs)))

\* The outputs execute_model returns on the driver for a prepared batch.
step_output(real_batch_size, groups, is_prompt, enable_delayed_sampling) ==
    IF enable_delayed_sampling
    THEN trim_output(IF is_prompt THEN empty_prompt_output(groups)
                     ELSE sample(groups), real_batch_size)
    ELSE trim_output(sample(groups), real_batch_size)

\* execute_model's return value for the padded list and what
\* prepare_input_tensors made of it.
output_of_prepared(real_batch_size, padded, prep, enable_delayed_sampling) ==
    IF prep.status # "ok"
    THEN [status |-> prep.status, real_batch_size |-> real_batch_size,
          padded_size |-> Len(padded), is_prompt |-> FALSE, outputs |-> <<>>]
    ELSE [status |-> "ok", real_batch_size |-> real_batch_size,
          padded_size |-> Len(padded), is_prompt |-> prep.is_prompt,
          outputs |-> step_output(real_batch_size, seq_groups(padded),
                                  prep.is_prompt, enable_delayed_sampling)]

(***************************************************************************)
(* Warm-up.                                                                *)
(***************************************************************************)
prompt_buckets ==
    generate_prompt_buckets(prompt_bs_bucket_cfg, prompt_seq_bucket_cfg)
decode_buckets ==
    generate_decode_buckets(decode_bs_bucket_cfg, decode_block_bucket_cfg,
                            NumCacheBlocks)

\* The dummy batch of warmup_scenario.
warmup_seqs(batch_size, seq_len, is_prompt) ==
    IF is_prompt
    THEN [i \in 1..batch_size |->
             create_dummy_seq_group_metadata(seq_len, is_prompt)]
    ELSE LET blocks == [i \in 1..batch_size |->
                           (seq_len \div batch_size)
                           + (IF i = 1 THEN seq_len % batch_size ELSE 0)]
         IN [i \in 1..batch_size |->
                create_dummy_seq_group_metadata(blocks[i] * block_size - 1,
                                                is_prompt)]

\* The loop of warmup_scenario: `times` calls of execute_model on the same
\* dummy batch, of which run is the first.  The calls after the first find
\* the shape in seen_configs and leave the same record; an exception in the
\* first ends the scenario.
scenario_loop(times, run) ==
    IF run.last.status = "ok"
    THEN [ok |-> TRUE,
          last |-> [run.last EXCEPT !.times = times],
          seen_configs |-> run.seen_configs,
          sent |-> Chain([i \in 1..times |-> run.last.sent])]
    ELSE [ok |-> FALSE,
          last |-> [run.last EXCEPT !.times = 1],
          seen_configs |-> run.seen_configs,
          sent |-> run.last.sent]

warmup_scenario(batch_size, seq_len, is_prompt, profile, graphed) ==
    scenario_loop(IF _use_graphs(batch_size, seq_len, is_prompt, graphed)
                     \/ profile
                  THEN GraphTimes ELSE 1,
                  execute_model(warmup_seqs(batch_size, seq_len, is_prompt),
                                TRUE, graphed))

\* A min_tokens key of the batch size and the length alone.
ordering_bs_first(strategy, b) ==
    IF strategy = "min_tokens" THEN <<b[1], b[2]>> ELSE <<0 - b[1], b[2]>>

\* The sort key of warmup_graphs; defined for the two supported strategies.
ordering(strategy, b) ==
    IF strategy = "min_tokens" THEN TokensKey(b) ELSE <<0 - b[1], b[2]>>

supported(strategy) == strategy \in {"min_tokens", "max_bs"}

\* batch_seq taken as the batch size in both phases.
batch_seq_of_batch_size(b, is_prompt) == b[1]

\* batch_seq of a candidate
batch_seq_of(b, is_prompt) == IF is_prompt THEN b[1] * b[2] ELSE b[1]

\* The test with > in place of >=.
estimate_exceeds_strict(batch_seq, tbs, tmem, available) ==
    batch_seq * Thousand * tmem > available * tbs

\* The test inverted: mem_estimate <= available_mem.
estimate_exceeds_inverted(batch_seq, tbs, tmem, available) ==
    batch_seq * Thousand * tmem <= available * tbs

\* mem_estimate >= available_mem, where
\* mem_estimate = batch_seq / total_batch_seq * total_mem.
estimate_exceeds(batch_seq, tbs, tmem, available) ==
    batch_seq * Thousand * tmem >= available * tbs

\* graphed_buckets assigned the new entry instead of growing by it.
add_graphed_bucket_assign(graphed, entry) == {entry}

\* self.graphed_buckets.add(entry)
add_graphed_bucket(graphed, entry) == graphed \cup {entry}

\* A skip that leaves the loop (break).
after_skip_break(i, n) == n

\* The index the loop goes to after a skipped candidate (continue).
after_skip(i, n) == i + 1

ChannelsEmpty == \A w \in Workers : channel[w] = <<>>

Broadcast(msgs) == channel' = [w \in Workers |-> channel[w] \o msgs]

ScanIdle ==
    /\ buckets' = <<>>
    /\ idx' = 0
    /\ available_mem' = 0
    /\ total_mem' = 0
    /\ total_batch_seq' = TotalBatchSeqInit
    /\ scan_budget' = 0
    /\ scan_strategy' = "none"
    /\ scan_log' = <<>>

\* Entry of warmup_graphs: the strategy check, the sort, the locals.
EnterGraphs(strategy, candidates, is_prompt, available) ==
    IF ~supported(strategy)
    THEN /\ pc' = "failed"
         /\ ScanIdle
    ELSE /\ pc' = IF is_prompt THEN "graphs_prompt" ELSE "graphs_decode"
         /\ buckets' = SortedBy(candidates,
                                [b \in SeqToSet(candidates) |->
                                    ordering(strategy, b)])
         /\ idx' = 0
         /\ available_mem' = available
         /\ total_mem' = 0
         /\ total_batch_seq' = TotalBatchSeqInit
         /\ scan_budget' = available
         /\ scan_strategy' = strategy
         /\ scan_log' = <<>>

\* profile_run: one warm-up scenario on the largest prompt shape, before
\* warmup_model.
ProfileRun ==
    /\ pc = "idle"
    /\ ChannelsEmpty
    /\ \E s \in {warmup_scenario(prompt_bs_bucket_cfg[3],
                                  prompt_seq_bucket_cfg[3], TRUE, FALSE,
                                  graphed_buckets)} :
          /\ last' = s.last
          /\ RecordStep(s.last)
          /\ seen_configs' = s.seen_configs
          /\ Broadcast(s.sent)
    /\ UNCHANGED warm_log
    /\ UNCHANGED <<cfgvars, ranks, graphed_buckets, pc, scanvars, nserve, device,
                   workervars, geom>>

\* warmup_model up to its first loop (or its return when warm-up is skipped).
WarmupModelEnter ==
    /\ pc = "idle"
    /\ IF skip_warmup
       THEN /\ pc' = "done"
            /\ UNCHANGED <<buckets, idx>>
       ELSE /\ pc' = "warmup_prompt"
            /\ buckets' = prompt_buckets
            /\ idx' = 0
    /\ UNCHANGED <<cfgvars, ranks, graphed_buckets, seen_configs, available_mem,
                   total_mem, total_batch_seq, decode_available_memory,
                   scan_budget, scan_strategy, scan_log, last, histvars,
                   nserve, device, channel, workervars, geom>>

\* warmup_model under VLLM_PT_PROFILE: one profiled scenario, on a shape taken
\* here among the buckets, then assert False.
WarmupModelProfile ==
    /\ pc = "idle"
    /\ ChannelsEmpty
    /\ \E is_prompt \in BOOLEAN, graphs \in BOOLEAN :
         \E b \in SeqToSet(IF is_prompt THEN prompt_buckets ELSE decode_buckets) :
           \E graphed \in {IF graphs
                           THEN add_graphed_bucket(graphed_buckets,
                                                   <<b[1], b[2], is_prompt>>)
                           ELSE graphed_buckets} :
             \E s \in {warmup_scenario(b[1], b[2], is_prompt, TRUE,
                                       graphed)} :
               /\ graphed_buckets' = graphed
               /\ last' = s.last
               /\ RecordStep(s.last)
               /\ seen_configs' = s.seen_configs
               /\ Broadcast(s.sent)
    /\ pc' = "failed"
    /\ UNCHANGED <<cfgvars, ranks, scanvars, nserve, device, workervars, geom,
                   warm_log>>

\* One iteration of warmup_all_buckets.
WarmupAllBucketsStep ==
    /\ pc \in {"warmup_prompt", "warmup_decode"}
    /\ idx < Len(buckets)
    /\ ChannelsEmpty
    /\ \E b \in {Reversed(buckets)[idx + 1]} :
         \E s \in {warmup_scenario(b[1], b[2], pc = "warmup_prompt", FALSE,
                                   graphed_buckets)} :
           /\ last' = s.last
           /\ RecordStep(s.last)
           /\ warm_log' = Append(warm_log, <<b[1], b[2], pc = "warmup_prompt">>)
           /\ seen_configs' = s.seen_configs
           /\ Broadcast(s.sent)
           /\ pc' = IF s.ok THEN pc ELSE "failed"
           /\ idx' = IF s.ok THEN idx + 1 ELSE idx
    /\ UNCHANGED <<cfgvars, ranks, graphed_buckets, buckets, available_mem, total_mem,
                   total_batch_seq, decode_available_memory, scan_budget,
                   scan_strategy, scan_log, nserve, device, workervars, geom>>

\* The end of a warmup_all_buckets loop: on to the decode buckets, and after
\* them to the budgets and the prompt scan (or to the end under
\* enforce_eager).
WarmupAllBucketsExit ==
    /\ pc \in {"warmup_prompt", "warmup_decode"}
    /\ idx = Len(buckets)
    /\ IF pc = "warmup_prompt"
       THEN /\ pc' = "warmup_decode"
            /\ buckets' = decode_buckets
            /\ idx' = 0
            /\ UNCHANGED <<available_mem, total_mem, total_batch_seq,
                           decode_available_memory, scan_budget, scan_strategy,
                           scan_log>>
       ELSE IF enforce_eager
       THEN /\ pc' = "done"
            /\ ScanIdle
            /\ UNCHANGED decode_available_memory
       ELSE \E free_mem \in device.free_mems, ratio \in PromptRatios :
              \E prompt_available_memory \in {(ratio * free_mem) \div 2} :
                 /\ decode_available_memory' =
                        free_mem - prompt_available_memory
                 /\ EnterGraphs("min_tokens", prompt_buckets, TRUE,
                                prompt_available_memory)
    /\ UNCHANGED <<cfgvars, ranks, graphed_buckets, seen_configs, last, histvars,
                   nserve, device, channel, workervars, geom>>

\* One iteration of the loop of warmup_graphs.
WarmupGraphsStep ==
    /\ pc \in {"graphs_prompt", "graphs_decode"}
    /\ idx < Len(buckets)
    /\ \E b \in {buckets[idx + 1]}, is_prompt \in {pc = "graphs_prompt"} :
       \E batch_seq \in {batch_seq_of(b, is_prompt)} :
          IF estimate_exceeds(batch_seq, total_batch_seq, total_mem,
                              available_mem)
          THEN /\ idx' = after_skip(idx, Len(buckets))
               /\ scan_log' = Append(scan_log,
                                     [bucket |-> b, captured |-> FALSE,
                                      used_mem |-> 0])
               /\ UNCHANGED <<pc, graphed_buckets, seen_configs, last,
                              executed, warnings, channel, available_mem,
                              total_mem, total_batch_seq>>
          ELSE \E graphed \in {add_graphed_bucket(
                                    graphed_buckets,
                                    <<b[1], b[2], is_prompt>>)} :
               \E s \in {warmup_scenario(b[1], b[2], is_prompt, FALSE,
                                         graphed)} :
                  /\ ChannelsEmpty
                  /\ graphed_buckets' = graphed
                  /\ last' = s.last
                  /\ RecordStep(s.last)
                  /\ seen_configs' = s.seen_configs
                  /\ Broadcast(s.sent)
                  /\ IF s.ok
                     THEN \E used_mem \in device.costs :
                            /\ available_mem' = available_mem - used_mem
                            /\ total_mem' = total_mem + used_mem
                            /\ total_batch_seq' =
                                   total_batch_seq + batch_seq * Thousand
                            /\ scan_log' = Append(scan_log,
                                                  [bucket |-> b,
                                                   captured |-> TRUE,
                                                   used_mem |-> used_mem])
                            /\ idx' = idx + 1
                            /\ pc' = pc
                     ELSE /\ pc' = "failed"
                          /\ UNCHANGED <<available_mem, total_mem,
                                         total_batch_seq, scan_log, idx>>
    /\ UNCHANGED <<cfgvars, ranks, buckets, decode_available_memory, scan_budget,
                   scan_strategy, nserve, device, workervars, geom,
                   warm_log>>

\* The end of a scan: on to the decode scan, and after it to the end.
WarmupGraphsExit ==
    /\ pc \in {"graphs_prompt", "graphs_decode"}
    /\ idx = Len(buckets)
    /\ IF pc = "graphs_prompt"
       THEN \E decode_strategy \in Strategies :
                EnterGraphs(decode_strategy, decode_buckets, FALSE,
                            decode_available_memory)
       ELSE /\ pc' = "done"
            /\ ScanIdle
    /\ decode_available_memory' = 0
    /\ UNCHANGED <<cfgvars, ranks, graphed_buckets, seen_configs, last, histvars,
                   nserve, device, channel, workervars, geom>>

(***************************************************************************)
(* Serving steps and the other workers.                                    *)
(***************************************************************************)
ExecuteModel ==
    /\ pc = "done"
    /\ nserve < MaxServe
    /\ ChannelsEmpty
    /\ \E seq_group_metadata_list \in RequestLists :
         \E run \in {execute_model(seq_group_metadata_list, FALSE,
                                    graphed_buckets)} :
            /\ RecordStep(run.last)
            /\ last' = [run.last EXCEPT
                           !.times = IF run.last.status = "IndexError"
                                     THEN 0 ELSE 1]
            /\ seen_configs' = run.seen_configs
            /\ Broadcast(run.last.sent)
    /\ nserve' = nserve + 1
    /\ UNCHANGED <<cfgvars, ranks, graphed_buckets, pc, scanvars, device, workervars,
                   geom, warm_log>>

NoReceive == [receives |-> 0, batch_type |-> "NONE", complete |-> FALSE]

\* prepare_input_tensors on a worker that is not the driver: a receive, and
\* a second one when the batch type received is MIXED.
WorkerExecuteModel(w) ==
    /\ channel[w] # <<>>
    /\ \E metadata_dict \in {Head(channel[w])} :
          IF wpc[w] = "second_receive"
          THEN /\ wpc' = [wpc EXCEPT ![w] = "idle"]
               /\ wlast' = [wlast EXCEPT ![w].receives = 2,
                                         ![w].complete = TRUE]
          ELSE IF metadata_dict.batch_type = "MIXED"
          THEN /\ wpc' = [wpc EXCEPT ![w] = "second_receive"]
               /\ wlast' = [wlast EXCEPT ![w] =
                               [receives |-> 1, batch_type |-> "MIXED",
                                complete |-> FALSE]]
          ELSE /\ wpc' = wpc
               /\ wlast' = [wlast EXCEPT ![w] =
                               [receives |-> 1,
                                batch_type |-> metadata_dict.batch_type,
                                complete |-> TRUE]]
    /\ channel' = [channel EXCEPT ![w] = Tail(channel[w])]
    /\ UNCHANGED <<cfgvars, ranks, graphed_buckets, seen_configs, pc, scanvars, last,
                   histvars, nserve, device, geom>>

(***************************************************************************)
(* The slot mapping of _prepare_prompt.                                    *)
(***************************************************************************)
_PAD_SLOT_ID == 0

\* The sliding window of the model config: None, or a window size.
NoWindow == [set |-> FALSE, size |-> 0]

\* A prompt sequence as _prepare_prompt reads it: get_len(), the number of
\* computed tokens, the token chunk size, the number of computed (prefix)
\* blocks, and the block table (or None).
PromptSeq(len, num_computed_tokens, token_chunk_size, computed_blocks, has_block_tables, block_table) ==
    [len |-> len, num_computed_tokens |-> num_computed_tokens,
     token_chunk_size |-> token_chunk_size,
     computed_blocks |-> computed_blocks,
     has_block_tables |-> has_block_tables, block_table |-> block_table]

\* seq_len of a prompt sequence.
prompt_seq_len(seq) ==
    Min2(seq.len, seq.num_computed_tokens + seq.token_chunk_size)

\* context_len after the prefix branch: a status and the length.
prompt_context_len(seq, sliding_window, chunked) ==
    IF chunked /\ seq.computed_blocks > 0
    THEN [status |-> "RuntimeError", context_len |-> 0]
    ELSE IF seq.computed_blocks > 0 /\ ~sliding_window.set
    THEN [status |-> "ok", context_len |-> seq.computed_blocks * block_size]
    ELSE IF chunked
    THEN [status |-> "ok", context_len |-> seq.num_computed_tokens]
    ELSE IF seq.num_computed_tokens = 0
    THEN [status |-> "ok", context_len |-> 0]
    ELSE [status |-> "AssertionError", context_len |-> 0]

\* start_idx: the first position the sliding window keeps.
slot_start_idx(seq_len, sliding_window) ==
    IF sliding_window.set THEN Max2(0, seq_len - sliding_window.size) ELSE 0

\* The slot with the offset taken by division.
slot_of_div_offset(block_table, i) ==
    block_table[(i \div block_size) + 1] * block_size + (i \div block_size)

\* The slot of token position i.
slot_of(block_table, i) ==
    block_table[(i \div block_size) + 1] * block_size + (i % block_size)

\* The loop over range(context_len, seq_len), from position i on.
RECURSIVE slot_loop(_, _, _, _)
slot_loop(block_table, i, seq_len, start_idx) ==
    IF i >= seq_len THEN <<>>
    ELSE <<IF i < start_idx THEN _PAD_SLOT_ID ELSE slot_of(block_table, i)>>
         \o slot_loop(block_table, i + 1, seq_len, start_idx)

\* The row of one sequence before padding.
slot_row(seq, seq_len, context_len, sliding_window) ==
    IF ~seq.has_block_tables THEN [j \in 1..seq_len |-> _PAD_SLOT_ID]
    ELSE slot_loop(seq.block_table, context_len, seq_len,
                   slot_start_idx(seq_len, sliding_window))

\* max_prompt_len of a batch whose longest sequence has max_seq_len tokens.
max_prompt_len(max_seq_len) ==
    Max2(find_bucket(max_seq_len, prompt_seq_bucket_cfg), block_size)

\* make_tensor_with_pad on one row: the row, filled on the right with pad
\* up to max_len.
make_tensor_with_pad(row, max_len, pad) ==
    row \o [j \in 1..(max_len - Len(row)) |-> pad]

\* The slot mapping row of seq in a batch whose other sequences are fresh
\* prompts of at most other_len tokens, given the context computed for seq.
slot_mapping_with(seq, seq_len, ctx, sliding_window, other_len) ==
    IF ctx.status # "ok" THEN [status |-> ctx.status, context_len |-> 0,
                               seq_len |-> seq_len, row |-> <<>>]
    ELSE IF seq.has_block_tables /\ sliding_window.set /\ ctx.context_len # 0
    THEN [status |-> "AssertionError", context_len |-> ctx.context_len,
          seq_len |-> seq_len, row |-> <<>>]
    ELSE IF Max2(seq_len - ctx.context_len, other_len) <= 0
    THEN [status |-> "AssertionError", context_len |-> ctx.context_len,
          seq_len |-> seq_len, row |-> <<>>]
    ELSE [status |-> "ok", context_len |-> ctx.context_len,
          seq_len |-> seq_len,
          row |-> make_tensor_with_pad(
                      slot_row(seq, seq_len, ctx.context_len, sliding_window),
                      max_prompt_len(Max2(seq_len, other_len)),
                      _PAD_SLOT_ID)]

slot_mapping(seq, sliding_window, chunked, other_len) ==
    slot_mapping_with(seq, prompt_seq_len(seq),
                      prompt_context_len(seq, sliding_window, chunked),
                      sliding_window, other_len)

(***************************************************************************)
(* The sampling indices of prepare_input_tensors.                          *)
(***************************************************************************)
\* seq_lens and query_lens as _prepare_prompt returns them.
prompt_seq_lens(seqs) == [i \in 1..Len(seqs) |-> prompt_seq_len(seqs[i])]

prompt_query_lens(seqs, sliding_window, chunked) ==
    [i \in 1..Len(seqs) |->
        prompt_seq_len(seqs[i])
        - prompt_context_len(seqs[i], sliding_window, chunked).context_len]

\* The first status of the rows that is not "ok", from row i on.
RECURSIVE prompt_rows_status(_, _, _, _)
prompt_rows_status(seqs, sliding_window, chunked, i) ==
    IF i > Len(seqs) THEN "ok"
    ELSE IF prompt_context_len(seqs[i], sliding_window, chunked).status # "ok"
    THEN prompt_context_len(seqs[i], sliding_window, chunked).status
    ELSE prompt_rows_status(seqs, sliding_window, chunked, i + 1)

\* selected_token_indices as SamplingMetadata.prepare leaves them for one
\* sampled token per sequence: the position of the last new token of each
\* sequence in the concatenation of the new tokens.
selected_token_indices(query_lens) ==
    [i \in 1..Len(query_lens) |-> SeqSum(SubSeq(query_lens, 1, i)) - 1]

\* itertools.accumulate
accumulate(l) == [i \in 1..Len(l) |-> SeqSum(SubSeq(l, 1, i))]

\* paddings = accumulate([0] + [max_len - s for s in seq_lens][:-1])
paddings_of(max_len, seq_lens) ==
    accumulate(<<0>> \o SubSeq([i \in 1..Len(seq_lens) |->
                                    max_len - seq_lens[i]],
                               1, Len(seq_lens) - 1))

\* Tensor.add_ of a one-dimensional tensor: elementwise, a tensor of one
\* element being broadcast.
add_(indices, paddings) ==
    IF Len(paddings) = Len(indices)
    THEN [status |-> "ok",
          indices |-> [i \in 1..Len(indices) |-> indices[i] + paddings[i]]]
    ELSE IF Len(paddings) = 1
    THEN [status |-> "ok",
          indices |-> [i \in 1..Len(indices) |-> indices[i] + paddings[1]]]
    ELSE [status |-> "RuntimeError", indices |-> indices]

\* The sampling indices prepare_input_tensors leaves for a prefill step on
\* seqs (num_decode = 0) or a decode step of num_decode sequences
\* (seqs empty), with the row width of input_tokens.
adjusted_indices(seqs, sliding_window, chunked, num_decode) ==
    IF num_decode > 0
    THEN [status |-> "ok", max_len |-> 1,
          indices |-> add_([k \in 1..num_decode |-> k - 1],
                           paddings_of(1, <<>>)).indices]
    ELSE IF prompt_rows_status(seqs, sliding_window, chunked, 1) # "ok"
    THEN [status |-> prompt_rows_status(seqs, sliding_window, chunked, 1),
          max_len |-> 0, indices |-> <<>>]
    ELSE IF SeqMax(prompt_query_lens(seqs, sliding_window, chunked)) <= 0
    THEN [status |-> "AssertionError", max_len |-> 0, indices |-> <<>>]
    ELSE [status |-> "ok",
          max_len |-> max_prompt_len(SeqMax(prompt_seq_lens(seqs))),
          indices |->
              add_(selected_token_indices(
                       prompt_query_lens(seqs, sliding_window, chunked)),
                   paddings_of(max_prompt_len(SeqMax(prompt_seq_lens(seqs))),
                               prompt_seq_lens(seqs))).indices]

(***************************************************************************)
(* The slots and the block lists of _prepare_decode.                       *)
(***************************************************************************)
\* A decode sequence as _prepare_decode reads it: get_len(), the number of
\* computed tokens and the block table.
DecodeSeq(len, num_computed_tokens, block_table) ==
    [len |-> len, num_computed_tokens |-> num_computed_tokens,
     block_table |-> block_table]

\* position of the token of this step.
decode_position(seq, enable_delayed_sampling) ==
    IF enable_delayed_sampling THEN seq.num_computed_tokens ELSE seq.len - 1

\* The slot of the token of this step.
decode_slot(seq, enable_delayed_sampling) ==
    slot_of(seq.block_table, decode_position(seq, enable_delayed_sampling))

\* block_table[-k:]
last_blocks(block_table, k) ==
    IF k = 0 \/ k >= Len(block_table) THEN block_table
    ELSE SubSeq(block_table, Len(block_table) - k + 1, Len(block_table))

\* The block table recorded for the sequence.
decode_block_table(seq, sliding_window) ==
    IF sliding_window.set
    THEN last_blocks(seq.block_table, sliding_window.size \div block_size)
    ELSE seq.block_table

\* [self.block_size] * (bu - 1) + [lb] with block_size in every place.
block_usage_row_full(bu, lb) == [j \in 1..Max2(bu, 1) |-> block_size]

\* [self.block_size] * (bu - 1) + [lb]
block_usage_row(bu, lb) ==
    [j \in 1..Max2(bu, 1) |-> IF j = Max2(bu, 1) THEN lb ELSE block_size]

\* The lists built after the loop of _prepare_decode from the slots and the
\* recorded block tables.
decode_lists(slots, block_tables) ==
    [status |-> "ok",
     slot_mapping |-> slots,
     block_tables |-> block_tables,
     block_list |->
         pad_list(Chain(block_tables), decode_block_bucket_cfg[2],
                  _PAD_SLOT_ID),
     block_mapping |->
         pad_list(Chain([i \in 1..Len(block_tables) |->
                            [j \in 1..Len(block_tables[i]) |-> i - 1]]),
                  decode_block_bucket_cfg[2], 0),
     block_usage |->
         pad_list(Chain([i \in 1..Len(block_tables) |->
                            block_usage_row(Len(block_tables[i]),
                                            (slots[i] % block_size) + 1)]),
                  decode_block_bucket_cfg[2], 0)]

\* _prepare_decode on a non-empty list, as far as the slots and the block
\* lists go; IndexError when a position lies beyond the block table.
prepare_decode_blocks(seqs, sliding_window, enable_delayed_sampling) ==
    IF \E i \in 1..Len(seqs) :
          decode_position(seqs[i], enable_delayed_sampling) \div block_size
              >= Len(seqs[i].block_table)
    THEN [status |-> "IndexError", slot_mapping |-> <<>>,
          block_tables |-> <<>>, block_list |-> <<>>, block_mapping |-> <<>>,
          block_usage |-> <<>>]
    ELSE decode_lists([i \in 1..Len(seqs) |->
                          decode_slot(seqs[i], enable_delayed_sampling)],
                      [i \in 1..Len(seqs) |->
                          decode_block_table(seqs[i], sliding_window)])

(***************************************************************************)
(* Delayed sampling in execute_model.                                      *)
(***************************************************************************)
\* seq_data.prev_logits of a sequence that carries no logits.
NoLogits == "None"

\* What a sequence carries from its last step: a logits tensor (named by a
\* string, two tensors being the same object when the names are equal) and
\* a row index.
CarriedState(prev_logits, prev_logits_idx) ==
    [prev_logits |-> prev_logits, prev_logits_idx |-> prev_logits_idx]

\* torch.zeros([1, 32000]): the row used for a sequence without logits.
placeholder_row == <<"zeros", 0>>

\* seq_group_metadata_list after the padding of execute_model, each entry
\* by the position in the real list of the object it refers to: the padding
\* entries are the first request itself.
padded_refs(real_batch_size, bucket_cfg) ==
    [k \in 1..find_bucket(real_batch_size, bucket_cfg) |->
        IF k <= real_batch_size THEN k ELSE 1]

\* logits_tensor[torch.tensor(logits_ids_list)]: the rows of one tensor.
index_rows(logits_tensor, logits_ids_list) ==
    [j \in 1..Len(logits_ids_list) |-> <<logits_tensor, logits_ids_list[j]>>]

\* The gathering loop without the test for a new tensor: every row id is
\* accumulated for the first tensor met.
RECURSIVE gather_loop_one_tensor(_, _, _, _, _, _)
gather_loop_one_tensor(refs, seq_data, k, logits_tensor, logits_ids_list, logits_tensor_list) ==
    IF k > Len(refs)
    THEN [status |-> "ok",
          rows |-> logits_tensor_list
                   \o index_rows(logits_tensor, logits_ids_list)]
    ELSE IF seq_data[refs[k]].prev_logits # NoLogits
    THEN gather_loop_one_tensor(
             refs, seq_data, k + 1,
             IF logits_tensor = NoLogits THEN seq_data[refs[k]].prev_logits
             ELSE logits_tensor,
             Append(logits_ids_list, seq_data[refs[k]].prev_logits_idx),
             logits_tensor_list)
    ELSE gather_loop_one_tensor(refs, seq_data, k + 1, logits_tensor,
                                logits_ids_list,
                                Append(logits_tensor_list, placeholder_row))

\* The loop that gathers the carried rows, from entry k on, and the gather
\* and torch.cat after it: the rows of prev_logits, or the exception of
\* reading .device of the last entry's prev_logits when that is None.
RECURSIVE gather_loop(_, _, _, _, _, _)
gather_loop(refs, seq_data, k, logits_tensor, logits_ids_list, logits_tensor_list) ==
    IF k > Len(refs)
    THEN IF logits_tensor = NoLogits
         THEN [status |-> "ok", rows |-> logits_tensor_list]
         ELSE IF seq_data[refs[Len(refs)]].prev_logits = NoLogits
         THEN [status |-> "AttributeError", rows |-> <<>>]
         ELSE [status |-> "ok",
               rows |-> logits_tensor_list
                        \o index_rows(logits_tensor, logits_ids_list)]
    ELSE IF seq_data[refs[k]].prev_logits # NoLogits
    THEN IF \/ logits_tensor = NoLogits
            \/ seq_data[refs[k]].prev_logits = logits_tensor
         THEN gather_loop(refs, seq_data, k + 1,
                          seq_data[refs[k]].prev_logits,
                          Append(logits_ids_list,
                                 seq_data[refs[k]].prev_logits_idx),
                          logits_tensor_list)
         ELSE gather_loop(refs, seq_data, k + 1,
                          seq_data[refs[k]].prev_logits,
                          <<seq_data[refs[k]].prev_logits_idx>>,
                          logits_tensor_list
                          \o index_rows(logits_tensor, logits_ids_list))
    ELSE gather_loop(refs, seq_data, k + 1, logits_tensor, logits_ids_list,
                     Append(logits_tensor_list, placeholder_row))

\* The loop over the real requests only.
RECURSIVE carry_loop_real_only(_, _, _, _)
carry_loop_real_only(refs, seq_data, k, logits) ==
    IF k > Len(seq_data) THEN seq_data
    ELSE carry_loop_real_only(
             refs, [seq_data EXCEPT ![k] = CarriedState(logits, k - 1)],
             k + 1, logits)

\* The loop that stores the logits of the step and the row index on every
\* entry of the padded list, from entry k on (idx = k - 1).
RECURSIVE carry_loop(_, _, _, _)
carry_loop(refs, seq_data, k, logits) ==
    IF k > Len(refs) THEN seq_data
    ELSE carry_loop(refs,
                    [seq_data EXCEPT ![refs[k]] = CarriedState(logits, k - 1)],
                    k + 1, logits)

\* The carried state after the step, given what the gathering returned.
carry_after(refs, seq_data, gathered) ==
    [refs |-> refs, status |-> gathered.status, rows |-> gathered.rows,
     seq_data |-> IF gathered.status = "ok"
                  THEN carry_loop(refs, seq_data, 1, "logits")
                  ELSE seq_data]

\* A step of execute_model with delayed sampling enabled on requests that
\* carry seq_data: the padded list, the rows passed to sample (none in a
\* prompt step) and the state carried after the step.
delayed_step(seq_data, bucket_cfg, is_prompt) ==
    carry_after(padded_refs(Len(seq_data), bucket_cfg), seq_data,
                IF is_prompt THEN [status |-> "ok", rows |-> <<>>]
                ELSE gather_loop(padded_refs(Len(seq_data), bucket_cfg),
                                 seq_data, 1, NoLogits, <<>>, <<>>))

(***************************************************************************)
(* The runner after construction, and its steps.                           *)
(***************************************************************************)
\* The geometry functions are not being applied.
GeomIdle ==
    [pc |-> "idle", value |-> 0, config |-> <<>>, result |-> 0,
     list |-> <<>>, prompt_cfg |-> <<>>, decode_cfg |-> <<>>, padded |-> <<>>,
     seq |-> <<>>, sliding_window |-> <<>>, chunked |-> FALSE, other_len |-> 0,
     slots |-> <<>>, bs_bucket_config |-> <<>>, seq_bucket_config |-> <<>>,
     max_blocks |-> 0, range |-> <<>>, buckets |-> <<>>,
     enable_delayed_sampling |-> FALSE, output |-> <<>>,
     rows |-> <<>>, num_decode |-> 0, selected |-> <<>>,
     carried |-> <<>>, is_prompt |-> FALSE, delayed |-> <<>>,
     decode_seqs |-> <<>>, decoded |-> <<>>, refound |-> <<>>]

Constructed ==
    /\ enforce_eager \in BOOLEAN
    /\ skip_warmup \in BOOLEAN
    /\ is_lazy \in BOOLEAN
    /\ chunked_prefill_enabled \in BOOLEAN
    /\ graphed_buckets = {}
    /\ seen_configs = {}
    /\ pc = "idle"
    /\ buckets = <<>>
    /\ idx = 0
    /\ available_mem = 0
    /\ total_mem = 0
    /\ total_batch_seq = TotalBatchSeqInit
    /\ decode_available_memory = 0
    /\ scan_budget = 0
    /\ scan_strategy = "none"
    /\ scan_log = <<>>
    /\ last = NoStep
    /\ executed = {}
    /\ warnings = <<>>
    /\ warm_log = <<>>
    /\ nserve = 0
    /\ channel = [w \in Workers |-> <<>>]
    /\ wpc = [w \in Workers |-> "idle"]
    /\ wlast = [w \in Workers |-> NoReceive]

\* The whole life of a runner: warmup_model once, then serving steps, on a
\* device where every capture costs one unit.
Init ==
    Constructed /\ device = UnitCostDevice /\ geom = GeomIdle /\ ranks = NoRanks

Next ==
    \/ ProfileRun
    \/ WarmupModelEnter
    \/ WarmupModelProfile
    \/ WarmupAllBucketsStep
    \/ WarmupAllBucketsExit
    \/ WarmupGraphsStep
    \/ WarmupGraphsExit
    \/ ExecuteModel
    \/ \E w \in Workers : WorkerExecuteModel(w)

Spec == Init /\ [][Next]_vars

\* The warm-up alone, on a device that can report any cost.
InitWarmup ==
    Constructed /\ device = AnyDevice /\ geom = GeomIdle /\ ranks = NoRanks

NextWarmup ==
    \/ ProfileRun
    \/ WarmupModelEnter
    \/ WarmupModelProfile
    \/ WarmupAllBucketsStep
    \/ WarmupAllBucketsExit
    \/ WarmupGraphsStep
    \/ WarmupGraphsExit
    \/ \E w \in Workers : WorkerExecuteModel(w)

SpecWarmup == InitWarmup /\ [][NextWarmup]_vars

(***************************************************************************)
(* The geometry functions on drawn inputs.                                 *)
(***************************************************************************)
\* Bucket configs with bmin, bstep and bmax between 1 and MaxCfg.
GeomConfigs == {<<bmin, bstep, bmax>> : bmin \in 1..MaxCfg, bstep \in 1..MaxCfg,
                                         bmax \in 1..MaxCfg}

\* Batch-size configs for padding: the runner's two and two larger ones.
PadConfigs == {prompt_bs_bucket_cfg, decode_bs_bucket_cfg, <<2, 4, 8>>,
               <<32, 32, 64>>}

\* A request list of n requests whose first differs from the others.
PadList(n, first_is_prompt, rest_is_prompt) ==
    [i \in 1..n |-> IF i = 1 THEN Request(first_is_prompt, 1)
                    ELSE Request(rest_is_prompt, 2)]

FindBucketInputs ==
    {[GeomIdle EXCEPT !.pc = "find_bucket", !.value = value,
                      !.config = config] :
         value \in 1..MaxValue, config \in GeomConfigs}

PadBatchInputs ==
    {[GeomIdle EXCEPT !.pc = "pad_batch",
                      !.list = PadList(n, first_is_prompt, rest_is_prompt),
                      !.prompt_cfg = cfgs[1], !.decode_cfg = cfgs[2]] :
         n \in 1..MaxBatch, first_is_prompt \in BOOLEAN,
         rest_is_prompt \in BOOLEAN, cfgs \in PadConfigs \X PadConfigs}

\* find_bucket applied to the drawn value and config.
FindBucket ==
    /\ geom.pc = "find_bucket"
    /\ geom' = [geom EXCEPT !.pc = "found",
                            !.result = find_bucket(geom.value, geom.config)]
    /\ UNCHANGED <<cfgvars, ranks, graphed_buckets, seen_configs, pc, scanvars, last,
                   histvars, nserve, device, channel, workervars>>

\* The padding of execute_model applied to the drawn list and configs.
PadBatch ==
    /\ geom.pc = "pad_batch"
    /\ geom' = [geom EXCEPT !.pc = "padded",
                            !.padded = pad_batch(geom.list, geom.prompt_cfg,
                                                 geom.decode_cfg)]
    /\ UNCHANGED <<cfgvars, ranks, graphed_buckets, seen_configs, pc, scanvars, last,
                   histvars, nserve, device, channel, workervars>>

\* Sliding windows: None, or a size up to MaxWindow.
SlidingWindows ==
    {NoWindow} \cup {[set |-> TRUE, size |-> k] : k \in 1..MaxWindow}

\* Block tables that cover len tokens, over the cache's block numbers.
BlockTables(len) ==
    [1..((len + block_size - 1) \div block_size) -> 0..(NumCacheBlocks - 1)]

\* Prompt sequences of up to MaxSeqLen tokens, of which fewer are computed
\* and fewer lie in computed prefix blocks.
PromptSeqs ==
    UNION {{PromptSeq(len, nc, chunk, cb, FALSE, <<>>)}
           \cup {PromptSeq(len, nc, chunk, cb, TRUE, bt) :
                     bt \in BlockTables(len)} :
               <<len, nc, chunk, cb>> \in
                   {t \in (1..MaxSeqLen) \X (0..MaxSeqLen) \X (1..MaxSeqLen)
                          \X (0..1) :
                        t[2] < t[1] /\ t[4] * block_size < t[1]}}

SlotMappingInputs ==
    {[GeomIdle EXCEPT !.pc = "slot_mapping", !.seq = seq,
                      !.sliding_window = sliding_window, !.chunked = chunked,
                      !.other_len = other_len] :
         seq \in PromptSeqs, sliding_window \in SlidingWindows,
         chunked \in BOOLEAN, other_len \in 0..MaxSeqLen}

\* The slot mapping of _prepare_prompt applied to the drawn sequence.
SlotMapping ==
    /\ geom.pc = "slot_mapping"
    /\ geom' = [geom EXCEPT !.pc = "mapped",
                            !.slots = slot_mapping(geom.seq,
                                                   geom.sliding_window,
                                                   geom.chunked,
                                                   geom.other_len)]
    /\ UNCHANGED <<cfgvars, ranks, graphed_buckets, seen_configs, pc, scanvars, last,
                   histvars, nserve, device, channel, workervars>>

\* Configs for warmup_range: the small ones and the one of the runner's
\* default prompt length axis with a unit floor.
WarmupRangeConfigs == GeomConfigs \cup {<<1, 128, 1024>>}

\* Bucket configs with bmin, bstep and bmax between 1 and MaxAxis.
AxisConfigs == {<<bmin, bstep, bmax>> : bmin \in 1..MaxAxis, bstep \in 1..MaxAxis,
                                         bmax \in 1..MaxAxis}

WarmupRangeInputs ==
    {[GeomIdle EXCEPT !.pc = "warmup_range", !.config = config] :
         config \in WarmupRangeConfigs}

PromptBucketsInputs ==
    {[GeomIdle EXCEPT !.pc = "generate_prompt_buckets",
                      !.bs_bucket_config = bs, !.seq_bucket_config = seq] :
         bs \in AxisConfigs, seq \in AxisConfigs}

DecodeBucketsInputs ==
    {[GeomIdle EXCEPT !.pc = "generate_decode_buckets",
                      !.bs_bucket_config = bs, !.seq_bucket_config = blocks,
                      !.max_blocks = max_blocks] :
         bs \in AxisConfigs, blocks \in AxisConfigs, max_blocks \in 1..MaxAxis}

\* warmup_range applied to the drawn config.
WarmupRange ==
    /\ geom.pc = "warmup_range"
    /\ geom' = [geom EXCEPT !.pc = "ranged",
                            !.range = warmup_range(geom.config)]
    /\ UNCHANGED <<cfgvars, ranks, graphed_buckets, seen_configs, pc, scanvars, last,
                   histvars, nserve, device, channel, workervars>>

\* generate_prompt_buckets applied to the drawn configs.
GeneratePromptBuckets ==
    /\ geom.pc = "generate_prompt_buckets"
    /\ geom' = [geom EXCEPT !.pc = "prompt_generated",
                            !.buckets = generate_prompt_buckets(
                                            geom.bs_bucket_config,
                                            geom.seq_bucket_config)]
    /\ UNCHANGED <<cfgvars, ranks, graphed_buckets, seen_configs, pc, scanvars, last,
                   histvars, nserve, device, channel, workervars>>

\* generate_decode_buckets applied to the drawn configs and max_blocks.
GenerateDecodeBuckets ==
    /\ geom.pc = "generate_decode_buckets"
    /\ geom' = [geom EXCEPT !.pc = "decode_generated",
                            !.buckets = generate_decode_buckets(
                                            geom.bs_bucket_config,
                                            geom.seq_bucket_config,
                                            geom.max_blocks)]
    /\ UNCHANGED <<cfgvars, ranks, graphed_buckets, seen_configs, pc, scanvars, last,
                   histvars, nserve, device, channel, workervars>>

\* Batch-size configs for the output: the runner's two and a larger one.
OutputConfigs == {prompt_bs_bucket_cfg, decode_bs_bucket_cfg, <<2, 4, 8>>}

OutputInputs ==
    {[GeomIdle EXCEPT !.pc = "execute_model",
                      !.list = PadList(n, first_is_prompt, rest_is_prompt),
                      !.prompt_cfg = cfgs[1], !.decode_cfg = cfgs[2],
                      !.enable_delayed_sampling = delayed] :
         n \in 1..MaxOutputBatch, first_is_prompt \in BOOLEAN,
         rest_is_prompt \in BOOLEAN, cfgs \in OutputConfigs \X OutputConfigs,
         delayed \in BOOLEAN}

\* execute_model on the driver applied to the drawn list, as far as its
\* return value goes.
ExecuteModelOutput ==
    /\ geom.pc = "execute_model"
    /\ \E padded \in {pad_batch(geom.list, geom.prompt_cfg, geom.decode_cfg)} :
         \E prep \in {prepare_input_tensors(padded)} :
             geom' = [geom EXCEPT
                         !.pc = "returned",
                         !.output = output_of_prepared(
                                        Len(geom.list), padded, prep,
                                        geom.enable_delayed_sampling)]
    /\ UNCHANGED <<cfgvars, ranks, graphed_buckets, seen_configs, pc, scanvars, last,
                   histvars, nserve, device, channel, workervars>>

\* Prompt sequences for the sampling indices: whole prompts with or without
\* a computed prefix block, and chunks of a prompt.
IndexSeqs ==
    {seq \in PromptSeqs :
        /\ ~seq.has_block_tables
        /\ \/ seq.num_computed_tokens = 0 /\ seq.token_chunk_size = seq.len
           \/ seq.computed_blocks = 0}

\* A prefill step of one or two sequences, or a decode step.
IndexInputs ==
    {[GeomIdle EXCEPT !.pc = "select", !.rows = rows, !.chunked = chunked,
                      !.sliding_window = NoWindow] :
         rows \in {<<a>> : a \in IndexSeqs}
                  \cup {<<a, b>> : a \in IndexSeqs, b \in IndexSeqs},
         chunked \in BOOLEAN}
    \cup {[GeomIdle EXCEPT !.pc = "select", !.num_decode = n,
                           !.sliding_window = NoWindow] : n \in 1..MaxReqs}

\* The adjustment of selected_token_indices applied to the drawn step.
SelectedTokenIndices ==
    /\ geom.pc = "select"
    /\ geom' = [geom EXCEPT !.pc = "selected",
                            !.selected = adjusted_indices(geom.rows,
                                                          geom.sliding_window,
                                                          geom.chunked,
                                                          geom.num_decode)]
    /\ UNCHANGED <<cfgvars, ranks, graphed_buckets, seen_configs, pc, scanvars, last,
                   histvars, nserve, device, channel, workervars>>

\* What a request can carry into a step: nothing, or a row of one of two
\* logits tensors.
CarriedStates ==
    {CarriedState(NoLogits, 0)}
    \cup {CarriedState(t, i) : t \in {"t1", "t2"}, i \in 0..MaxReqs}

\* Steps of one to three requests, under the runner's decode batch config
\* or one that pads.
DelayedInputs ==
    {[GeomIdle EXCEPT !.pc = "delayed", !.carried = carried,
                      !.config = config, !.is_prompt = is_prompt] :
         carried \in {<<a>> : a \in CarriedStates}
                     \cup {<<a, b>> : a \in CarriedStates, b \in CarriedStates}
                     \cup {<<a, b, c>> : a \in CarriedStates,
                                         b \in CarriedStates,
                                         c \in CarriedStates},
         config \in {decode_bs_bucket_cfg, <<2, 4, 8>>},
         is_prompt \in BOOLEAN}

\* A step with delayed sampling applied to the drawn requests.
DelayedSamplingStep ==
    /\ geom.pc = "delayed"
    /\ geom' = [geom EXCEPT !.pc = "stepped",
                            !.delayed = delayed_step(geom.carried, geom.config,
                                                     geom.is_prompt)]
    /\ UNCHANGED <<cfgvars, ranks, graphed_buckets, seen_configs, pc, scanvars, last,
                   histvars, nserve, device, channel, workervars>>

\* Decode sequences of up to MaxSeqLen tokens whose block tables cover
\* them with the first and the last block of the cache.
DecodeSeqs ==
    UNION {{DecodeSeq(len, nc, bt) :
               bt \in [1..num_blocks_of(len) -> {0, NumCacheBlocks - 1}]} :
           <<len, nc>> \in {t \in (1..MaxSeqLen) \X (0..MaxSeqLen) :
                                t[2] < t[1]}}

\* A decode step of one or two sequences.
PrepareDecodeInputs ==
    {[GeomIdle EXCEPT !.pc = "prepare_decode", !.decode_seqs = seqs,
                      !.sliding_window = sliding_window,
                      !.enable_delayed_sampling = enable_delayed_sampling] :
         seqs \in {<<a>> : a \in DecodeSeqs}
                  \cup {<<a, b>> : a \in DecodeSeqs, b \in DecodeSeqs},
         sliding_window \in SlidingWindows,
         enable_delayed_sampling \in BOOLEAN}

\* _prepare_decode applied to the drawn sequences.
PrepareDecode ==
    /\ geom.pc = "prepare_decode"
    /\ geom' = [geom EXCEPT
                   !.pc = "decode_prepared",
                   !.decoded = prepare_decode_blocks(
                                   geom.decode_seqs, geom.sliding_window,
                                   geom.enable_delayed_sampling)]
    /\ UNCHANGED <<cfgvars, ranks, graphed_buckets, seen_configs, pc, scanvars, last,
                   histvars, nserve, device, channel, workervars>>

CandidateInputs ==
    {[GeomIdle EXCEPT !.pc = "candidates", !.config = config] :
         config \in GeomConfigs}

\* find_bucket applied to every element of warmup_range of the drawn
\* config.
FindBucketOfCandidates ==
    /\ geom.pc = "candidates"
    /\ \E range \in {warmup_range(geom.config)} :
         geom' = [geom EXCEPT
                     !.pc = "refound",
                     !.range = range,
                     !.refound = [k \in 1..Len(range) |->
                                     find_bucket(range[k], geom.config)]]
    /\ UNCHANGED <<cfgvars, ranks, graphed_buckets, seen_configs, pc, scanvars, last,
                   histvars, nserve, device, channel, workervars>>

InitGeom ==
    /\ Constructed
    /\ ~enforce_eager /\ ~skip_warmup /\ ~is_lazy /\ ~chunked_prefill_enabled
    /\ device = UnitCostDevice
    /\ ranks = NoRanks
    /\ \/ geom \in FindBucketInputs
       \/ geom \in PadBatchInputs
       \/ geom \in SlotMappingInputs
       \/ geom \in WarmupRangeInputs
       \/ geom \in PromptBucketsInputs
       \/ geom \in DecodeBucketsInputs
       \/ geom \in OutputInputs
       \/ geom \in IndexInputs
       \/ geom \in DelayedInputs
       \/ geom \in PrepareDecodeInputs
       \/ geom \in CandidateInputs

NextGeom ==
    \/ FindBucket
    \/ PadBatch
    \/ SlotMapping
    \/ WarmupRange
    \/ GeneratePromptBuckets
    \/ GenerateDecodeBuckets
    \/ ExecuteModelOutput
    \/ SelectedTokenIndices
    \/ DelayedSamplingStep
    \/ PrepareDecode
    \/ FindBucketOfCandidates

SpecGeom == InitGeom /\ [][NextGeom]_vars

(***************************************************************************)
(* The capture scan on every rank of the world: warmup_model from the      *)
(* reduction of free_mem to the end of one warmup_graphs call, with the    *)
(* all_reduce of align_workers as a rendezvous of the ranks.               *)
(***************************************************************************)
SetMin(values) == CHOOSE v \in values : \A u \in values : v <= u
SetMax(values) == CHOOSE v \in values : \A u \in values : v >= u

\* align_workers that returns the rank's own value.
align_workers_local(value, op, values) == value

\* align_workers: the value itself in a world of one rank, else the
\* all_reduce of the values the ranks brought.
align_workers(value, op, values) ==
    IF Cardinality(Ranks) <= 1 THEN value
    ELSE IF op = "MIN" THEN SetMin(values)
    ELSE SetMax(values)

\* prompt_available_memory and decode_available_memory, the ratio in halves.
graph_budget(is_prompt, ratio, free_mem) ==
    IF is_prompt THEN (ratio * free_mem) \div 2
    ELSE free_mem - ((ratio * free_mem) \div 2)

\* The candidates of the scan in the order warmup_graphs visits them.
rank_buckets(is_prompt, strategy) ==
    SortedBy(IF is_prompt THEN prompt_buckets ELSE decode_buckets,
             [b \in SeqToSet(IF is_prompt THEN prompt_buckets
                             ELSE decode_buckets) |-> ordering(strategy, b)])

\* A rank about to reduce its local free memory.
RankStart(is_prompt, strategy, ratio, free_mem) ==
    [pc |-> "free_mem", is_prompt |-> is_prompt, strategy |-> strategy,
     ratio |-> ratio, free_mem |-> free_mem, op |-> "none", value |-> 0,
     available_mem |-> 0, total_mem |-> 0,
     total_batch_seq |-> TotalBatchSeqInit, idx |-> 0, graphed |-> {},
     decisions |-> <<>>, reductions |-> <<>>, differed |-> FALSE]

\* Ranks with the same candidates, strategy and ratio, each with its own
\* free memory.
AlignInputs ==
    {[r \in Ranks |-> RankStart(cfg[1], cfg[2], ratio, free_mem[r])] :
         cfg \in {<<TRUE, "min_tokens">>, <<FALSE, "min_tokens">>,
                  <<FALSE, "max_bs">>},
         ratio \in PromptRatios,
         free_mem \in [Ranks -> AnyDevice.free_mems]}

\* The rank after align_workers returned v.
after_reduce(rk, v) ==
    IF rk.op = "MIN"
    THEN [rk EXCEPT !.pc = "scan", !.op = "none", !.value = 0,
                    !.free_mem = v,
                    !.available_mem = graph_budget(rk.is_prompt, rk.ratio, v),
                    !.differed = @ \/ v # rk.value]
    ELSE [rk EXCEPT !.pc = "scan", !.op = "none", !.value = 0,
                    !.available_mem = @ - v,
                    !.total_mem = @ + v,
                    !.total_batch_seq =
                        @ + batch_seq_of(
                                rank_buckets(rk.is_prompt,
                                             rk.strategy)[rk.idx + 1],
                                rk.is_prompt) * Thousand,
                    !.idx = @ + 1,
                    !.differed = @ \/ v # rk.value]

\* A rank calls align_workers: with its free memory before the scan, with
\* the cost it measured after a capture.
RankEnterAllReduce(r) ==
    /\ ranks[r].pc \in {"free_mem", "measure"}
    /\ \E op \in {IF ranks[r].pc = "free_mem" THEN "MIN" ELSE "MAX"} :
       \E value \in (IF ranks[r].pc = "free_mem" THEN {ranks[r].free_mem}
                     ELSE device.costs) :
          ranks' = [ranks EXCEPT ![r].pc = "all_reduce",
                                 ![r].op = op,
                                 ![r].value = value,
                                 ![r].reductions = Append(@, op)]
    /\ UNCHANGED <<cfgvars, graphed_buckets, seen_configs, pc, scanvars, last,
                   histvars, nserve, device, channel, workervars, geom>>

\* torch.distributed.all_reduce: every rank has called it with the same
\* operation, and every rank gets the result.
AllReduce ==
    /\ \A r \in Ranks : ranks[r].pc = "all_reduce"
    /\ \A r, q \in Ranks : ranks[r].op = ranks[q].op
    /\ ranks' = [r \in Ranks |->
                    after_reduce(ranks[r],
                                 align_workers(ranks[r].value, ranks[r].op,
                                               {ranks[q].value : q \in Ranks}))]
    /\ UNCHANGED <<cfgvars, graphed_buckets, seen_configs, pc, scanvars, last,
                   histvars, nserve, device, channel, workervars, geom>>

\* One iteration of the loop of warmup_graphs on a rank, up to the
\* measurement of a capture, or the end of the loop.
RankScanStep(r) ==
    /\ ranks[r].pc = "scan"
    /\ \E rk \in {ranks[r]} :
       \E cands \in {rank_buckets(rk.is_prompt, rk.strategy)} :
          IF rk.idx >= Len(cands)
          THEN ranks' = [ranks EXCEPT ![r].pc = "done"]
          ELSE IF estimate_exceeds(batch_seq_of(cands[rk.idx + 1],
                                                rk.is_prompt),
                                   rk.total_batch_seq, rk.total_mem,
                                   rk.available_mem)
          THEN ranks' = [ranks EXCEPT
                            ![r].idx = after_skip(rk.idx, Len(cands)),
                            ![r].decisions = Append(@, FALSE)]
          ELSE ranks' = [ranks EXCEPT
                            ![r].pc = "measure",
                            ![r].graphed =
                                add_graphed_bucket(
                                    @, <<cands[rk.idx + 1][1],
                                         cands[rk.idx + 1][2], rk.is_prompt>>),
                            ![r].decisions = Append(@, TRUE)]
    /\ UNCHANGED <<cfgvars, graphed_buckets, seen_configs, pc, scanvars, last,
                   histvars, nserve, device, channel, workervars, geom>>

InitAlign ==
    /\ Constructed
    /\ ~enforce_eager /\ ~skip_warmup /\ ~is_lazy /\ ~chunked_prefill_enabled
    /\ device = AnyDevice
    /\ geom = GeomIdle
    /\ ranks \in AlignInputs

NextAlign ==
    \/ \E r \in Ranks : RankEnterAllReduce(r)
    \/ AllReduce
    \/ \E r \in Ranks : RankScanStep(r)

SpecAlign == InitAlign /\ [][NextAlign]_vars

(***************************************************************************)
(* Properties.                                                             *)
(***************************************************************************)
InScan == pc \in {"graphs_prompt", "graphs_decode"}

\* The measured cost of the buckets the current scan captured among the
\* first k candidates it visited.
CapturedCost(k) ==
    SeqSum([i \in 1..k |->
               IF scan_log[i].captured THEN scan_log[i].used_mem ELSE 0])

\* C1: a coordinator step (execute_model -> prepare_input_tensors) whose
\* request list holds at least one prompt-phase and at least one decode-phase
\* request raises instead of executing, with chunked prefill enabled or not;
\* a step that proceeds had exactly one non-empty partition.
C1_MixedListRaises ==
    /\ (last.n_prompt_in > 0 /\ last.n_decode_in > 0)
           => last.status \in {"AssertionError", "NotImplementedError"}
    /\ last.status = "ok"
           => ((last.n_prompt_in > 0) # (last.n_decode_in > 0))

\* A serving step on a mixed list has raised with chunked prefill enabled.
C1_Witness ==
    /\ chunked_prefill_enabled
    /\ ~last.warmup_mode
    /\ last.n_prompt_in > 0 /\ last.n_decode_in > 0
    /\ last.status = "AssertionError"

\* C2: execute_model pads a list of n requests to exactly
\* find_bucket(n, bs_config) requests, bs_config being the prompt or the
\* decode batch-size config by the phase of the first request, by appending
\* copies of the first request; under (32, 32, 64), 40 requests become 64
\* and 24 become 32.
C2_PadToBucket ==
    geom.pc = "padded" =>
        LET n == Len(geom.list)
            bs_config == IF geom.list[1].is_prompt THEN geom.prompt_cfg
                         ELSE geom.decode_cfg
        IN /\ Len(geom.padded) = find_bucket(n, bs_config)
           /\ SubSeq(geom.padded, 1, n) = geom.list
           /\ \A i \in (n + 1)..Len(geom.padded) : geom.padded[i] = geom.list[1]
           /\ (bs_config = <<32, 32, 64>> /\ n = 40) => Len(geom.padded) = 64
           /\ (bs_config = <<32, 32, 64>> /\ n = 24) => Len(geom.padded) = 32

\* Forty decode requests have been padded to 64 under (32, 32, 64), the
\* prompt config being another one.
C2_Witness ==
    /\ geom.pc = "padded"
    /\ Len(geom.list) = 40
    /\ ~geom.list[1].is_prompt
    /\ geom.list[2].is_prompt
    /\ geom.decode_cfg = <<32, 32, 64>>
    /\ geom.prompt_cfg = <<2, 4, 8>>
    /\ Len(geom.padded) = 64
    /\ ~geom.padded[64].is_prompt

\* C3: for bmin >= 1, bstep >= 1 and v >= 1, find_bucket(v, config) is at
\* least bmin and at least v.
C3_BucketCoversValue ==
    geom.pc = "found" =>
        /\ geom.result >= geom.config[1]
        /\ geom.result >= geom.value

\* find_bucket has rounded a value above bmin up to a larger bucket.
C3_Witness ==
    /\ geom.pc = "found"
    /\ geom.value > geom.config[1]
    /\ geom.result > geom.value

\* C4: for a fixed config find_bucket is non-decreasing in its value:
\* v1 <= v2 implies find_bucket(v1, config) <= find_bucket(v2, config).
C4_BucketMonotone ==
    geom.pc = "found" =>
        \A v1 \in 1..geom.value :
            find_bucket(v1, geom.config) <= geom.result

\* find_bucket has returned more than it returns for the value below.
C4_Witness ==
    /\ geom.pc = "found"
    /\ geom.value >= 2
    /\ find_bucket(geom.value - 1, geom.config) < geom.result

\* The measured cost of the first bucket the current scan captured.
FirstCapturedCost ==
    IF \E i \in 1..Len(scan_log) : scan_log[i].captured
    THEN scan_log[CHOOSE i \in 1..Len(scan_log) :
                      /\ scan_log[i].captured
                      /\ \A j \in 1..(i - 1) : ~scan_log[j].captured].used_mem
    ELSE 0

\* C5 as stated, with its allowance for the first captured bucket (admitted
\* on a zero estimate): in a capture-budget scan the measured costs of the
\* captured buckets, the first one's left out, sum to at most the initial
\* budget.
C5_TotalWithinBudget ==
    InScan => CapturedCost(Len(scan_log)) - FirstCapturedCost <= scan_budget

\* C5 amended: measured costs being non-negative, every capture of a scan
\* starts while the measured cost of the buckets captured before it is below
\* the initial budget (the cost of the capture itself may pass it).
C5_CaptureStartsWithinBudget ==
    InScan =>
        \A i \in 1..Len(scan_log) :
            scan_log[i].captured => CapturedCost(i - 1) < scan_budget

\* A scan has captured a bucket after others that cost memory, and its
\* measured total, the first capture left out, is over the initial budget.
C5_Witness ==
    /\ InScan
    /\ \E i \in 1..Len(scan_log) :
           scan_log[i].captured /\ CapturedCost(i - 1) > 0
    /\ CapturedCost(Len(scan_log)) - FirstCapturedCost > scan_budget

\* C6: the scan examines every candidate of the sorted list exactly once, in
\* order, and ends only after the last; a candidate whose estimate is >= the
\* remaining budget is skipped, and the skip goes on to the next candidate
\* and leaves the remaining budget, the running work total, the running
\* memory total and graphed_buckets unchanged.
C6_SkipContinuesScan ==
    [][/\ pc' \in {"graphs_prompt", "graphs_decode"}
           => /\ Len(scan_log') = idx'
              /\ \A i \in 1..idx' : scan_log'[i].bucket = buckets'[i]
       /\ (InScan /\ pc' # pc) => idx = Len(buckets)
       /\ (InScan /\ Len(scan_log') = Len(scan_log) + 1)
           => (scan_log'[Len(scan_log')].captured
                  <=> (batch_seq_of(buckets[idx + 1], pc = "graphs_prompt")
                           * Thousand * total_mem
                       < available_mem * total_batch_seq))
       /\ (InScan /\ Len(scan_log') = Len(scan_log) + 1
                  /\ ~scan_log'[Len(scan_log')].captured)
           => /\ idx' = idx + 1
              /\ pc' = pc
              /\ buckets' = buckets
              /\ available_mem' = available_mem
              /\ total_batch_seq' = total_batch_seq
              /\ total_mem' = total_mem
              /\ graphed_buckets' = graphed_buckets]_vars

\* A scan has skipped a candidate and captured a later one.
C6_Witness ==
    /\ InScan
    /\ \E i, j \in 1..Len(scan_log) :
           i < j /\ ~scan_log[i].captured /\ scan_log[j].captured

\* C7 as stated: the first candidate in sorted order is captured, for every
\* initial budget.
C7_FirstAlwaysCaptured ==
    (InScan /\ Len(scan_log) >= 1) => scan_log[1].captured

\* C7 amended: the first candidate in sorted order is captured for every
\* positive initial budget.
C7_FirstCapturedOnPositiveBudget ==
    (InScan /\ Len(scan_log) >= 1 /\ scan_budget > 0)
        => /\ scan_log[1].captured
           /\ scan_log[1].bucket = buckets[1]
           /\ <<buckets[1][1], buckets[1][2], pc = "graphs_prompt">>
                  \in graphed_buckets

\* The decode scan has captured its first candidate on a positive budget.
C7_Witness ==
    /\ pc = "graphs_decode"
    /\ scan_budget > 0
    /\ Len(scan_log) = 1
    /\ scan_log[1].captured

\* C8: graphed_buckets only grows; a serving step (execute_model with
\* warmup_mode false) leaves it unchanged, and it grows only in warmup_model
\* (its profile path and its scans).
C8_CaptureSetOnlyGrows ==
    [][/\ graphed_buckets \subseteq graphed_buckets'
       /\ nserve' # nserve => graphed_buckets' = graphed_buckets
       /\ graphed_buckets' # graphed_buckets
              => /\ pc \in {"idle", "graphs_prompt", "graphs_decode"}
                 /\ last'.warmup_mode]_vars

\* A serving step has run after warm-up captured several buckets.
C8_Witness ==
    /\ nserve >= 1
    /\ Cardinality(graphed_buckets) >= 2
    /\ last.status = "ok"
    /\ ~last.warmup_mode

\* C9 as stated: the capture flag of the executed shape is true exactly when
\* the shape is in graphed_buckets or warm-up was skipped, and the model
\* receives its negation as bypass_hpu_graphs.
C9_FlagIffCaptured ==
    last.status = "ok" =>
        /\ last.use_graphs
               <=> (skip_warmup
                    \/ <<last.batch_size, last.seq_len, last.is_prompt>>
                           \in graphed_buckets)
        /\ last.bypass = IF last.use_graphs THEN "no_bypass" ELSE "bypass"

\* C9 amended: under enforce_eager the flag is false; otherwise it is true
\* exactly when the shape is in graphed_buckets or warm-up was skipped.  In
\* lazy mode the model receives the negation of the flag as
\* bypass_hpu_graphs; otherwise it receives no such argument.
C9_FlagUnlessEager ==
    last.status = "ok" =>
        /\ last.use_graphs
               <=> (~enforce_eager
                    /\ (skip_warmup
                        \/ <<last.batch_size, last.seq_len, last.is_prompt>>
                               \in graphed_buckets))
        /\ last.bypass = IF ~is_lazy THEN "absent"
                         ELSE IF last.use_graphs THEN "no_bypass"
                         ELSE "bypass"

\* A serving step in lazy mode has run a shape that warm-up captured.
C9_Witness ==
    /\ ~enforce_eager /\ ~skip_warmup /\ is_lazy
    /\ last.status = "ok"
    /\ ~last.warmup_mode
    /\ last.use_graphs
    /\ last.bypass = "no_bypass"

\* C10: a step the coordinator completes sent exactly one broadcast, of type
\* PREFILL or DECODE, and every other worker's step takes exactly one
\* receive: no MIXED message is ever in flight and no worker ever waits for
\* a second receive.
C10_OneBroadcastPerStep ==
    /\ last.status = "ok"
           => /\ Len(last.sent) = 1
              /\ last.sent[1].batch_type = last.batch_type
              /\ last.batch_type \in {"PREFILL", "DECODE"}
    /\ \A w \in Workers :
           /\ wpc[w] # "second_receive"
           /\ wlast[w].batch_type # "MIXED"
           /\ wlast[w].complete => wlast[w].receives = 1
           /\ \A i \in 1..Len(channel[w]) : channel[w][i].batch_type # "MIXED"

\* Every worker has received the one broadcast of a completed serving step.
C10_Witness ==
    /\ nserve >= 1
    /\ last.status = "ok"
    /\ ~last.warmup_mode
    /\ ChannelsEmpty
    /\ \A w \in Workers :
           /\ wlast[w].complete
           /\ wlast[w].receives = 1
           /\ wlast[w].batch_type = last.batch_type

\* C11 as stated: in a mapped row of a sequence with a block table, index i
\* holds the slot of token position i for every position from the window
\* start on, the pad slot before the window start, and the pad slot from
\* seq_len on.
C11_SlotAtPosition ==
    (geom.pc = "mapped" /\ geom.slots.status = "ok"
     /\ geom.seq.has_block_tables)
    => \A i \in 0..(Len(geom.slots.row) - 1) :
           geom.slots.row[i + 1] =
               IF i >= geom.slots.seq_len
                  \/ i < slot_start_idx(geom.slots.seq_len,
                                        geom.sliding_window)
               THEN _PAD_SLOT_ID
               ELSE geom.seq.block_table[(i \div block_size) + 1] * block_size
                    + (i % block_size)

\* C11 (amended): in a mapped row of a sequence with a block table, index
\* i - context_len holds the slot block_table[i // block_size] * block_size
\* + i % block_size of every token position i from context_len to
\* seq_len - 1 that is not before the window start, the pad slot for the
\* positions before the window start, and the pad slot at every index from
\* seq_len - context_len up to the row's width max_prompt_len.
C11_SlotAtPositionAfterContext ==
    (geom.pc = "mapped" /\ geom.slots.status = "ok"
     /\ geom.seq.has_block_tables)
    => /\ Len(geom.slots.row) =
              max_prompt_len(Max2(geom.slots.seq_len, geom.other_len))
       /\ \A j \in 1..Len(geom.slots.row) :
              geom.slots.row[j] =
                  IF j + geom.slots.context_len > geom.slots.seq_len
                     \/ j + geom.slots.context_len - 1 <
                            slot_start_idx(geom.slots.seq_len,
                                           geom.sliding_window)
                  THEN _PAD_SLOT_ID
                  ELSE geom.seq.block_table[
                           ((j + geom.slots.context_len - 1) \div block_size)
                           + 1] * block_size
                       + ((j + geom.slots.context_len - 1) % block_size)

\* A mapped row with a window start inside the sequence, a real slot and
\* right padding.
C11_Witness ==
    /\ geom.pc = "mapped" /\ geom.slots.status = "ok"
    /\ geom.seq.has_block_tables
    /\ geom.sliding_window.set
    /\ slot_start_idx(geom.slots.seq_len, geom.sliding_window) > 0
    /\ Len(geom.slots.row) > geom.slots.seq_len
    /\ \E j \in 1..Len(geom.slots.row) : geom.slots.row[j] # _PAD_SLOT_ID

\* r[1..n] is the doubling ramp from bmin of the terms below bstep (and, when
\* cut_at_max, not above bmax), and the ramp stops only there.
IsRamp(r, n, config, cut_at_max) ==
    /\ n > 0 => r[1] = config[1]
    /\ \A k \in 1..(n - 1) : r[k + 1] = 2 * r[k]
    /\ \A k \in 1..n : r[k] < config[2] /\ (cut_at_max => r[k] <= config[3])
    /\ \E next \in {IF n = 0 THEN config[1] ELSE 2 * r[n]} :
           next >= config[2] \/ (cut_at_max /\ next > config[3])

\* r[n+1..Len(r)] is the arithmetic sequence from max(bmin, bstep) by bstep
\* of all terms up to bmax.
IsStable(r, n, config) ==
    /\ n < Len(r) => r[n + 1] = Max2(config[1], config[2])
    /\ \A k \in (n + 1)..(Len(r) - 1) : r[k + 1] = r[k] + config[2]
    /\ \A k \in (n + 1)..Len(r) : r[k] <= config[3]
    /\ \E next \in {IF n = Len(r) THEN Max2(config[1], config[2])
                    ELSE r[Len(r)] + config[2]} : next > config[3]

DefaultRange == <<1, 2, 4, 8, 16, 32, 64, 128, 256, 384, 512, 640, 768, 896, 1024>>

\* C12 as stated: warmup_range(config) is the doubling ramp of all terms
\* below step followed by the arithmetic sequence from max(min, step) by step
\* up to max, and warmup_range((1,128,1024)) is the literal list.
C12_RampBelowStepThenStable ==
    geom.pc = "ranged"
    => /\ \E n \in 0..Len(geom.range) :
              /\ IsRamp(geom.range, n, geom.config, FALSE)
              /\ IsStable(geom.range, n, geom.config)
       /\ geom.config = <<1, 128, 1024>> => geom.range = DefaultRange

\* C12 (amended): warmup_range(config) is the doubling ramp min, 2*min, ...
\* of all terms below step and not above max, immediately followed by the
\* arithmetic sequence from max(min, step) by step of all terms up to max;
\* warmup_range((1,128,1024)) is exactly
\* [1,2,4,8,16,32,64,128,256,384,512,640,768,896,1024].
C12_RampCutAtMaxThenStable ==
    geom.pc = "ranged"
    => /\ \E n \in 0..Len(geom.range) :
              /\ IsRamp(geom.range, n, geom.config, TRUE)
              /\ IsStable(geom.range, n, geom.config)
       /\ geom.config = <<1, 128, 1024>> => geom.range = DefaultRange

\* warmup_range has been applied to (1,128,1024): a ramp and a stable part.
C12_Witness ==
    /\ geom.pc = "ranged"
    /\ geom.config = <<1, 128, 1024>>
    /\ Len(geom.range) = 15

\* The precondition on a bucket config: 1 <= min <= max and step >= 1.
ValidConfig(config) == 1 <= config[1] /\ config[1] <= config[3] /\ config[2] >= 1

\* For a valid config the range is strictly increasing within [min, max].
C13_RangeIncreasing ==
    (geom.pc = "ranged" /\ ValidConfig(geom.config))
    => /\ \A k \in 1..(Len(geom.range) - 1) : geom.range[k] < geom.range[k + 1]
       /\ \A k \in 1..Len(geom.range) :
              geom.config[1] <= geom.range[k] /\ geom.range[k] <= geom.config[3]

\* For valid configs every prompt bucket lies within min and max on both axes.
C13_PromptBucketsBounded ==
    (geom.pc = "prompt_generated" /\ ValidConfig(geom.bs_bucket_config)
     /\ ValidConfig(geom.seq_bucket_config))
    => \A k \in 1..Len(geom.buckets) :
           /\ geom.bs_bucket_config[1] <= geom.buckets[k][1]
           /\ geom.buckets[k][1] <= geom.bs_bucket_config[3]
           /\ geom.seq_bucket_config[1] <= geom.buckets[k][2]
           /\ geom.buckets[k][2] <= geom.seq_bucket_config[3]

\* C13: for 1 <= min <= max and step >= 1, warmup_range(config) is finite and
\* strictly increasing with every element in [min, max]; hence every pair of
\* generate_prompt_buckets lies within the configured min and max on both
\* axes.
C13_RangeWithinBounds == C13_RangeIncreasing /\ C13_PromptBucketsBounded

\* warmup_range has produced a ramp and a stable part for a valid config.
C13_Witness ==
    /\ geom.pc = "ranged" /\ ValidConfig(geom.config)
    /\ Len(geom.range) >= 4
    /\ geom.range[2] = 2 * geom.range[1]
    /\ geom.range[Len(geom.range)] # 2 * geom.range[Len(geom.range) - 1]

\* C14 as stated: for 1 <= min <= max and step >= 1 the last element of
\* warmup_range(config) equals max.
C14_LastIsMax ==
    (geom.pc = "ranged" /\ ValidConfig(geom.config))
    => /\ geom.range # <<>>
       /\ geom.range[Len(geom.range)] = geom.config[3]

\* x is the largest term up to bmax of the stable grid when bstep <= bmax,
\* and of the doubling ramp from bmin otherwise.
IsLastOnGrid(x, bmin, bstep, bmax) ==
    /\ x <= bmax
    /\ bstep <= bmax => /\ x >= Max2(bmin, bstep)
                        /\ (x - Max2(bmin, bstep)) % bstep = 0
                        /\ x + bstep > bmax
    /\ bstep > bmax => /\ \E k \in 0..bmax : x = bmin * 2^k
                       /\ 2 * x > bmax

\* C14 (amended): for 1 <= min <= max and step >= 1, warmup_range(config) is
\* not empty and its last element is the largest term not above max of the
\* arithmetic grid max(min, step) + k*step when step <= max, and of the
\* doubling ramp min * 2^k when step > max; it equals max only when max lies
\* on that grid.
C14_LastIsLargestGridTerm ==
    (geom.pc = "ranged" /\ ValidConfig(geom.config))
    => /\ geom.range # <<>>
       /\ IsLastOnGrid(geom.range[Len(geom.range)], geom.config[1],
                       geom.config[2], geom.config[3])

\* warmup_range of a valid config has ended below max.
C14_Witness ==
    /\ geom.pc = "ranged" /\ ValidConfig(geom.config)
    /\ geom.config[2] <= geom.config[3]
    /\ Len(geom.range) >= 3
    /\ geom.range[Len(geom.range)] < geom.config[3]

\* s lists every element of the set S exactly once.
ListsOnce(s, S) == SeqToSet(s) = S /\ Len(s) = Cardinality(S)

\* s ascends strictly by the key (bs * len, len, bs).
AscendingByTokensKey(s) ==
    \A k \in 1..(Len(s) - 1) : LexLess(TokensKey(s[k]), TokensKey(s[k + 1]))

\* C15: generate_prompt_buckets returns exactly the Cartesian product
\* warmup_range(bs) x warmup_range(len), each pair once, in ascending order
\* of the key (bs * len, len, bs).
C15_PromptBucketsAreSortedProduct ==
    geom.pc = "prompt_generated"
    => /\ ListsOnce(geom.buckets,
                    SeqToSet(warmup_range(geom.bs_bucket_config))
                        \X SeqToSet(warmup_range(geom.seq_bucket_config)))
       /\ AscendingByTokensKey(geom.buckets)

\* Prompt buckets have been generated from two ranges of several sizes, and
\* the order differs from the order of the product.
C15_Witness ==
    /\ geom.pc = "prompt_generated"
    /\ Len(geom.buckets) >= 6
    /\ \E k \in 1..(Len(geom.buckets) - 1) :
           geom.buckets[k][1] > geom.buckets[k + 1][1]

\* The pairs of warmup_range(bs) x warmup_range(blocks) with
\* bs <= blocks <= max_blocks.
ValidDecodePairs(bs_bucket_config, blocks_bucket_config, max_blocks) ==
    {p \in SeqToSet(warmup_range(bs_bucket_config))
               \X SeqToSet(warmup_range(blocks_bucket_config)) :
         p[1] <= p[2] /\ p[2] <= max_blocks}

\* C16: generate_decode_buckets returns exactly the pairs of
\* warmup_range(bs) x warmup_range(blocks) with bs <= blocks <= max_blocks,
\* each once: the early exit of the inner loop drops no valid pair.
C16_DecodeBucketsAreValidPairs ==
    geom.pc = "decode_generated"
    => ListsOnce(geom.buckets,
                 ValidDecodePairs(geom.bs_bucket_config, geom.seq_bucket_config,
                                  geom.max_blocks))

\* Decode buckets have been generated where the inner loop skipped a block
\* count below the batch size and left at one above max_blocks.
C16_Witness ==
    /\ geom.pc = "decode_generated"
    /\ Len(geom.buckets) >= 2
    /\ \E k \in 1..Len(geom.buckets) :
           /\ \E blocks \in SeqToSet(warmup_range(geom.seq_bucket_config)) :
                  blocks < geom.buckets[k][1]
           /\ \E blocks \in SeqToSet(warmup_range(geom.seq_bucket_config)) :
                  blocks > geom.max_blocks

\* C17: the output of a coordinator step holds exactly one entry per real
\* request, the entries of the first real_batch_size rows in order, and none
\* for a padding row, with immediate and with delayed sampling, for prompt
\* and for decode batches.
C17_OneOutputPerRealRequest ==
    (geom.pc = "returned" /\ geom.output.status = "ok")
    => /\ Len(geom.output.outputs) = Len(geom.list)
       /\ \A k \in 1..Len(geom.output.outputs) : geom.output.outputs[k].row = k

\* A decode step under delayed sampling has returned for a padded batch.
C17_Witness ==
    /\ geom.pc = "returned" /\ geom.output.status = "ok"
    /\ geom.enable_delayed_sampling /\ ~geom.output.is_prompt
    /\ geom.output.padded_size > geom.output.real_batch_size
    /\ geom.output.real_batch_size >= 2

\* C18: the not-warmed-up warning for a shape is logged only by a serving
\* step (warmup_mode false), only when no earlier call, of warm-up or of
\* serving, executed that shape, and so at most once per shape; the step that
\* logs it still executes the batch.
C18_WarningOnlyForNewShape ==
    [][Len(warnings') > Len(warnings)
       => /\ Len(warnings') = Len(warnings) + 1
          /\ ~last'.warmup_mode
          /\ warnings'[Len(warnings')] = Shape(last')
          /\ Shape(last') \notin executed
          /\ \A k \in 1..Len(warnings) : warnings[k] # Shape(last')
          /\ last'.status = "ok"
          /\ Shape(last') \in executed']_vars

\* The second serving step has logged the first warning: the first one ran
\* a shape that an earlier call had executed.
C18_Witness ==
    /\ nserve = 2
    /\ Len(warnings) = 1
    /\ last.warned /\ last.status = "ok"
    /\ Cardinality(executed) = 2

\* The shape profile_run executes before warmup_model.
ProfileShape == <<prompt_bs_bucket_cfg[3], prompt_seq_bucket_cfg[3], TRUE>>

\* C19: when warm-up runs with an unsupported decode strategy, the error is
\* raised before any bucket has been warmed up or captured: at the failure
\* the CaptureSet is empty and warmup_model has executed no shape.
C19_UnsupportedStrategyBeforeWork ==
    [][(pc = "graphs_prompt" /\ idx = Len(buckets) /\ pc' = "failed")
       => /\ graphed_buckets' = {}
          /\ executed' \subseteq {ProfileShape}]_vars

\* The total token-work the claim names: batch_size * length for prompt,
\* batch_size for decode.
TokenWork(b, is_prompt) == IF is_prompt THEN b[1] * b[2] ELSE b[1]

\* Descending batch size, ascending length as the tie-break.
MaxBsBefore(a, b) == a[1] > b[1] \/ (a[1] = b[1] /\ a[2] < b[2])

\* C20 as stated: a min_tokens scan visits candidates in ascending
\* batch_size * length (prompt) or ascending batch_size (decode); a max_bs
\* scan in descending batch size with ascending length as the tie-break.
C20_VisitsByTokenWork ==
    InScan
    => \A i \in 1..Len(scan_log) : \A j \in (i + 1)..Len(scan_log) :
           /\ scan_strategy = "min_tokens"
                  => TokenWork(scan_log[i].bucket, pc = "graphs_prompt")
                         <= TokenWork(scan_log[j].bucket, pc = "graphs_prompt")
           /\ scan_strategy = "max_bs"
                  => MaxBsBefore(scan_log[i].bucket, scan_log[j].bucket)

\* C20 (amended): the capture scan visits candidates in the order of the
\* chosen strategy: min_tokens in ascending order of
\* (batch_size * length, length, batch_size) for prompt and for decode alike,
\* the length of a decode candidate being its block count; max_bs in
\* descending batch size with ascending length as the tie-break.
C20_VisitsByStrategyKey ==
    InScan
    => \A i \in 1..Len(scan_log) : \A j \in (i + 1)..Len(scan_log) :
           /\ scan_strategy = "min_tokens"
                  => LexLess(TokensKey(scan_log[i].bucket),
                             TokensKey(scan_log[j].bucket))
           /\ scan_strategy = "max_bs"
                  => MaxBsBefore(scan_log[i].bucket, scan_log[j].bucket)

\* A min_tokens decode scan has visited a larger batch before a smaller one.
C20_Witness ==
    /\ pc = "graphs_decode"
    /\ scan_strategy = "min_tokens"
    /\ \E i \in 1..Len(scan_log) : \E j \in (i + 1)..Len(scan_log) :
           scan_log[i].bucket[1] > scan_log[j].bucket[1]


(***************************************************************************)
(* C21.  The warm-up runs of warmup_model.                                 *)
(***************************************************************************)
\* The runs of one phase in warm_log, in the order they were made.
WarmRunsOf(is_prompt) ==
    SelectSeq(warm_log, LAMBDA r : r[3] = is_prompt)

\* Every bucket of list appears exactly once among the runs.
RunsEachOnce(runs, list) ==
    /\ Len(runs) = Len(list)
    /\ \A k \in 1..Len(list) :
         Cardinality({j \in 1..Len(runs) :
                        <<runs[j][1], runs[j][2]>> = list[k]}) = 1

\* The runs go down in the sort key of the buckets.
DescendingByTokensKey(runs) ==
    \A i, j \in 1..Len(runs) :
        i < j => LexLess(TokensKey(runs[j]), TokensKey(runs[i]))

WarmupRunsComplete ==
    /\ RunsEachOnce(WarmRunsOf(TRUE), prompt_buckets)
    /\ RunsEachOnce(WarmRunsOf(FALSE), decode_buckets)
    /\ Len(warm_log) = Len(prompt_buckets) + Len(decode_buckets)

C21_State ==
    /\ DescendingByTokensKey(WarmRunsOf(TRUE))
    /\ DescendingByTokensKey(WarmRunsOf(FALSE))
    /\ pc \in {"warmup_prompt", "warmup_decode"} => graphed_buckets = {}
    /\ (pc # "failed" /\ graphed_buckets # {}) => WarmupRunsComplete
    /\ (~skip_warmup /\ pc \in {"graphs_prompt", "graphs_decode", "done"})
          => WarmupRunsComplete

C21_Run ==
    Len(warm_log') > Len(warm_log)
        => /\ graphed_buckets = {}
           /\ graphed_buckets' = {}
           /\ last'.warmup_mode
           /\ ~last'.use_graphs
           /\ last'.times = 1

\* C21: when warm-up is not skipped, warmup_model runs every candidate bucket
\* of both phases exactly once, without capture, each phase from the largest
\* sort key down, and all these runs are made before the first capture.
C21_WarmupRunsBeforeCaptures == []C21_State /\ [][C21_Run]_vars

\* The prompt scan has made a capture after the warm-up runs of both phases.
C21_Witness ==
    /\ pc = "graphs_prompt"
    /\ graphed_buckets # {}
    /\ Len(warm_log) = Len(prompt_buckets) + Len(decode_buckets)
    /\ Len(prompt_buckets) > 1
    /\ Len(decode_buckets) > 1


(***************************************************************************)
(* C22.  The bucket of a live value and the warm-up candidates.            *)
(***************************************************************************)
\* C22: for a config with 1 <= min <= max and step >= 1 and a live value v
\* with 1 <= v <= max, find_bucket(v, config) is an element of
\* warmup_range(config).
C22_LiveBucketIsCandidate ==
    (geom.pc = "found" /\ ValidConfig(geom.config)
     /\ 1 <= geom.value /\ geom.value <= geom.config[3])
    => geom.result \in SeqToSet(warmup_range(geom.config))


(***************************************************************************)
(* C23.  The sampling indices after the padding offset.                    *)
(***************************************************************************)
\* C23: in a prefill step of n sequences padded to row width L the adjusted
\* index of sequence i (counted from 0) is i * L + q_i - 1, q_i being the
\* number of new tokens of row i; in a decode step the indices are left
\* as they were.
C23_IndexIsLastRealToken ==
    (geom.pc = "selected" /\ geom.selected.status = "ok")
    => IF geom.num_decode > 0
       THEN geom.selected.indices = [k \in 1..geom.num_decode |-> k - 1]
       ELSE \A i \in 1..Len(geom.rows) :
               geom.selected.indices[i] =
                   (i - 1) * geom.selected.max_len
                   + prompt_query_lens(geom.rows, geom.sliding_window,
                                       geom.chunked)[i] - 1


(***************************************************************************)
(* C24, C25.  Delayed sampling.                                            *)
(***************************************************************************)
\* The row the k-th entry of the padded list carries into the step.
CarriedRow(k) ==
    IF geom.carried[geom.delayed.refs[k]].prev_logits = NoLogits
    THEN placeholder_row
    ELSE <<geom.carried[geom.delayed.refs[k]].prev_logits,
           geom.carried[geom.delayed.refs[k]].prev_logits_idx>>

RowsInRequestOrder ==
    /\ geom.delayed.status = "ok"
    /\ geom.delayed.rows = [k \in 1..Len(geom.delayed.refs) |-> CarriedRow(k)]

AllCarry == \A k \in 1..Len(geom.carried) :
                geom.carried[k].prev_logits # NoLogits
NoneCarries == \A k \in 1..Len(geom.carried) :
                   geom.carried[k].prev_logits = NoLogits

\* C24 as stated: in a delayed-sampling decode step the matrix passed to
\* sample has the carried row (or the placeholder row) of the k-th request of
\* the padded batch as its row k, for every batch, mixed ones included.
C24_RowsInRequestOrderAlways ==
    (geom.pc = "stepped" /\ ~geom.is_prompt) => RowsInRequestOrder

\* C24: in a delayed-sampling decode step in which every request carries
\* logits (of one stored tensor or of several), or none does, the matrix
\* passed to sample has one row per request of the padded batch, row k being
\* the row carried by the k-th request (the placeholder row when none
\* carries any).
C24_RowsInRequestOrderUnmixed ==
    (geom.pc = "stepped" /\ ~geom.is_prompt /\ (AllCarry \/ NoneCarries))
    => RowsInRequestOrder

\* Three requests carrying rows of two tensors, the first tensor again after
\* the second, in a batch padded to four.
C24_Witness ==
    /\ geom.pc = "stepped" /\ ~geom.is_prompt
    /\ Len(geom.carried) = 3 /\ Len(geom.delayed.refs) = 4
    /\ geom.carried[1].prev_logits = "t1"
    /\ geom.carried[2].prev_logits = "t2"
    /\ geom.carried[3].prev_logits = "t1"
    /\ Len(geom.delayed.rows) = 4


\* C25 as stated: after a step with delayed sampling each real request at
\* batch position i carries the logits of the step and row index i, padded
\* batches included.
C25_CarriesOwnPosition ==
    (geom.pc = "stepped" /\ geom.delayed.status = "ok")
    => \A i \in 1..Len(geom.carried) :
           geom.delayed.seq_data[i] = CarriedState("logits", i - 1)

\* C25: after a step with delayed sampling each real request carries the
\* logits of the step; the request at position i >= 1 carries row index i,
\* and the first request carries row index 0 when the batch was not padded
\* and the index of the last padding row, a copy of this request, when it
\* was.
C25_CarriesLastPositionHeld ==
    (geom.pc = "stepped" /\ geom.delayed.status = "ok")
    => \A i \in 1..Len(geom.carried) :
           geom.delayed.seq_data[i] =
               CarriedState("logits",
                            IF i = 1 /\ Len(geom.delayed.refs) > Len(geom.carried)
                            THEN Len(geom.delayed.refs) - 1
                            ELSE i - 1)

\* A decode step of three requests padded to four has been made.
C25_Witness ==
    /\ geom.pc = "stepped" /\ geom.delayed.status = "ok"
    /\ ~geom.is_prompt
    /\ Len(geom.carried) = 3 /\ Len(geom.delayed.refs) = 4
    /\ geom.delayed.seq_data[1].prev_logits_idx = 3
    /\ geom.delayed.seq_data[3].prev_logits_idx = 2


(***************************************************************************)
(* C26.  The block lists of Prepare-Decode.                                *)
(***************************************************************************)
\* The number of blocks the sequences before sequence i supplied.
RECURSIVE BlocksBefore(_, _)
BlocksBefore(block_tables, i) ==
    IF i <= 1 THEN 0
    ELSE BlocksBefore(block_tables, i - 1) + Len(block_tables[i - 1])

\* The block tables as the source records them, restated: the whole table,
\* or its trailing sliding_window // block_size blocks.
RecordedTable(seq, sliding_window) ==
    IF sliding_window.set /\ sliding_window.size \div block_size > 0
       /\ sliding_window.size \div block_size < Len(seq.block_table)
    THEN [b \in 1..(sliding_window.size \div block_size) |->
             seq.block_table[Len(seq.block_table)
                             - (sliding_window.size \div block_size) + b]]
    ELSE seq.block_table

DecodeTotalBlocks ==
    BlocksBefore([i \in 1..Len(geom.decode_seqs) |->
                     RecordedTable(geom.decode_seqs[i], geom.sliding_window)],
                 Len(geom.decode_seqs) + 1)

\* C26: for every decode batch block_list, block_mapping and block_usage
\* have one length, a multiple of the decode block step; at the index of
\* block b of sequence i, block_list holds that block, block_mapping holds
\* the batch index of i and block_usage holds block_size, or
\* slot % block_size + 1 at the sequence's last block; every padding index
\* has mapping 0 and usage 0.
C26_BlockListsAgree ==
    (geom.pc = "decode_prepared" /\ geom.decoded.status = "ok")
    => /\ Len(geom.decoded.block_list) = Len(geom.decoded.block_mapping)
       /\ Len(geom.decoded.block_list) = Len(geom.decoded.block_usage)
       /\ Len(geom.decoded.block_list) % decode_block_bucket_cfg[2] = 0
       /\ Len(geom.decoded.block_list) >= DecodeTotalBlocks
       /\ Len(geom.decoded.block_list)
              < DecodeTotalBlocks + decode_block_bucket_cfg[2]
       /\ \A i \in 1..Len(geom.decode_seqs) :
            \A b \in 1..Len(RecordedTable(geom.decode_seqs[i],
                                          geom.sliding_window)) :
              \E j \in {BlocksBefore(
                            [k \in 1..Len(geom.decode_seqs) |->
                                RecordedTable(geom.decode_seqs[k],
                                              geom.sliding_window)], i) + b} :
                /\ geom.decoded.block_list[j] =
                       RecordedTable(geom.decode_seqs[i],
                                     geom.sliding_window)[b]
                /\ geom.decoded.block_mapping[j] = i - 1
                /\ geom.decoded.block_usage[j] =
                       IF b = Len(RecordedTable(geom.decode_seqs[i],
                                                geom.sliding_window))
                       THEN (geom.decoded.slot_mapping[i] % block_size) + 1
                       ELSE block_size
       /\ \A j \in (DecodeTotalBlocks + 1)..Len(geom.decoded.block_list) :
            /\ geom.decoded.block_mapping[j] = 0
            /\ geom.decoded.block_usage[j] = 0

\* Two sequences, the first with two blocks, whose three blocks were padded
\* to four.
C26_Witness ==
    /\ geom.pc = "decode_prepared" /\ geom.decoded.status = "ok"
    /\ Len(geom.decode_seqs) = 2
    /\ Len(geom.decoded.block_tables[1]) = 2
    /\ DecodeTotalBlocks = 3
    /\ Len(geom.decoded.block_list) = 4
    /\ geom.decoded.block_usage[2] = 1


(***************************************************************************)
(* C27.  The candidates as fixed points of find_bucket.                    *)
(***************************************************************************)
\* C27 as stated: for every config with 1 <= min <= max and step >= 1 every
\* element of warmup_range(config) is a fixed point of find_bucket.
C27_CandidatesAreFixedPoints ==
    (geom.pc = "refound" /\ ValidConfig(geom.config))
    => geom.refound = geom.range


(***************************************************************************)
(* C28.  The capture scan on several ranks.                                *)
(***************************************************************************)
IsPrefixOf(s, t) == Len(s) <= Len(t) /\ s = SubSeq(t, 1, Len(s))

\* What two ranks have done so far agrees as far as both have come.
RanksAgree(r, q) ==
    /\ IsPrefixOf(ranks[r].decisions, ranks[q].decisions)
       \/ IsPrefixOf(ranks[q].decisions, ranks[r].decisions)
    /\ IsPrefixOf(ranks[r].reductions, ranks[q].reductions)
       \/ IsPrefixOf(ranks[q].reductions, ranks[r].reductions)
    /\ (ranks[r].pc = "done" /\ ranks[q].pc = "done")
          => /\ ranks[r].decisions = ranks[q].decisions
             /\ ranks[r].reductions = ranks[q].reductions
             /\ ranks[r].graphed = ranks[q].graphed

\* One MIN reduction, before the scan, then one MAX reduction per capture.
ReductionsOf(rk) ==
    /\ \A k \in 1..Len(rk.reductions) :
           rk.reductions[k] = IF k = 1 THEN "MIN" ELSE "MAX"
    /\ rk.pc \in {"scan", "done"}
          => Len(rk.reductions)
               = 1 + Cardinality({k \in 1..Len(rk.decisions) : rk.decisions[k]})
    /\ rk.pc = "done"
          => Len(rk.decisions) = Len(rank_buckets(rk.is_prompt, rk.strategy))

\* C28: ranks that run the capture scan with the same candidates and
\* strategy but their own free memory and measured costs make the same
\* admit/skip decision for every candidate, make the same reductions in the
\* same order (one MIN before the scan, one MAX after each capture) and end
\* with the same set of captured buckets.
C28_RanksDecideAlike ==
    \A r \in Ranks :
        ranks[r].pc # "idle"
        => /\ ReductionsOf(ranks[r])
           /\ \A q \in Ranks : RanksAgree(r, q)

\* Every rank has ended a scan with captures and skips in which a reduction
\* changed a rank's own value.
C28_Witness ==
    /\ \A r \in Ranks : ranks[r].pc = "done"
    /\ \E r \in Ranks : ranks[r].differed
    /\ \E k \in 1..Len(ranks[1].decisions) : ranks[1].decisions[k]
    /\ \E k \in 1..Len(ranks[1].decisions) : ~ranks[1].decisions[k]
    /\ Len(ranks[1].reductions) > 2


(***************************************************************************)
(* C29.  The pad slot and the real cache slots.                            *)
(***************************************************************************)
\* C29: for every block table with non-negative block indices, the cache
\* slot block_index * block_size + offset that Prepare-Prompt or
\* Prepare-Decode computes for a token position is never the pad slot.
C29_RealSlotIsNotPadSlot ==
    /\ (geom.pc = "mapped" /\ geom.slots.status = "ok"
        /\ geom.seq.has_block_tables)
       => \A i \in geom.slots.context_len..(geom.slots.seq_len - 1) :
             i >= slot_start_idx(geom.slots.seq_len, geom.sliding_window)
             => geom.slots.row[i - geom.slots.context_len + 1] # _PAD_SLOT_ID
    /\ (geom.pc = "decode_prepared" /\ geom.decoded.status = "ok")
       => \A i \in 1..Len(geom.decoded.slot_mapping) :
             geom.decoded.slot_mapping[i] # _PAD_SLOT_ID


(***************************************************************************)
(* C30.  Skips of the prompt scan.                                         *)
(***************************************************************************)
\* C30: in the prompt scan, under min_tokens and with measured costs that
\* are not negative, every candidate visited after a skipped one is skipped
\* too: the captured buckets are a prefix of the sorted candidates.
C30_CapturesFormPrefix ==
    (pc = "graphs_prompt" /\ scan_strategy = "min_tokens")
    => \A i, j \in 1..Len(scan_log) :
          (i < j /\ ~scan_log[i].captured) => ~scan_log[j].captured

\* The prompt scan has captured two candidates and skipped the two after
\* them.
C30_Witness ==
    /\ pc = "graphs_prompt" /\ scan_strategy = "min_tokens"
    /\ Len(scan_log) = 4
    /\ scan_log[1].captured /\ scan_log[2].captured
    /\ ~scan_log[3].captured /\ ~scan_log[4].captured
    /\ scan_log[2].used_mem > 0

====
